---------------------------- MODULE Spec2Model ----------------------------
(***************************************************************************)
(* Dark-web brand monitoring crawler: the federated search aggregator      *)
(* (crawler/search/multiEngineSearch.js) and the typosquatting detector    *)
(* (crawler/utils/domainSimilarity.js).                                     *)
(*                                                                         *)
(* A JavaScript string is a sequence of UTF-16 code units; it is modelled  *)
(* as a sequence of one-unit strings ("g", "0", ".").  A non-ASCII unit is *)
(* written by its code point ("U+043E" is CYRILLIC SMALL LETTER O).        *)
(***************************************************************************)
EXTENDS Integers, Sequences, FiniteSets, TLC

(***************************************************************************)
(* Bounds of the model.                                                    *)
(***************************************************************************)
\* longest generated string handed to the string functions
MaxLen == 3
\* longest generated brand keyword list
MaxKeywords == 2
\* longest engine list a caller passes to multiEngineSearch
MaxEngines == 2

(***************************************************************************)
(* String primitives of JavaScript used by the sources.                    *)
(***************************************************************************)
Min2(x, y) == IF x <= y THEN x ELSE y

Max2(x, y) == IF x >= y THEN x ELSE y

\* s.substring(from, to) with 0-based indices, from <= to, clamped to the length
Substring(s, from, to) ==
    LET f == Min2(Max2(from, 0), Len(s))
        t == Min2(Max2(to, 0), Len(s))
    IN  IF f >= t THEN << >> ELSE [k \in 1..(t - f) |-> s[f + k]]

\* s.substring(from)
SubstringFrom(s, from) == Substring(s, from, Len(s))

\* s.startsWith(p)
StartsWith(s, p) == Len(p) <= Len(s) /\ Substring(s, 0, Len(p)) = p

\* s.indexOf(sub): 0-based position of the first occurrence, -1 when there is none
IndexOf(s, sub) ==
    LET hits == {i \in 0..(Len(s) - Len(sub)) : Substring(s, i, i + Len(sub)) = sub}
    IN  IF hits = {} THEN -1 ELSE CHOOSE i \in hits : \A j \in hits : i <= j

\* s.includes(sub)
Includes(s, sub) == IndexOf(s, sub) >= 0

\* s.replace(sub, rep) with a string pattern: only the first occurrence is replaced
ReplaceFirst(s, sub, rep) ==
    LET i == IndexOf(s, sub)
    IN  IF i < 0 THEN s
        ELSE Substring(s, 0, i) \o rep \o SubstringFrom(s, i + Len(sub))

UpperLetters ==
    <<"A","B","C","D","E","F","G","H","I","J","K","L","M",
      "N","O","P","Q","R","S","T","U","V","W","X","Y","Z">>

\* String.fromCharCode(97) .. String.fromCharCode(122)
LowerLetters ==
    <<"a","b","c","d","e","f","g","h","i","j","k","l","m",
      "n","o","p","q","r","s","t","u","v","w","x","y","z">>

LowerChar(c) ==
    IF \E k \in 1..26 : UpperLetters[k] = c
    THEN LowerLetters[CHOOSE k \in 1..26 : UpperLetters[k] = c]
    ELSE c

\* s.toLowerCase() (the other units of the model have no upper-case form)
ToLowerCase(s) == [k \in 1..Len(s) |-> LowerChar(s[k])]

DotOnion == <<".","o","n","i","o","n">>

(***************************************************************************)
(* domainSimilarity.js                                                     *)
(***************************************************************************)

\* one row of the matrix: matrix[i][0] = i, then the cells j = 1..a.length
\* from the row above (prev) and the cell to the left (cur[j], 1-based cur)
RECURSIVE LevRow(_, _, _, _, _)
LevRow(cur, prev, i, a, b) ==
    LET j == Len(cur)
    IN  IF j > Len(a) THEN cur
        ELSE LevRow(
               Append(cur,
                 IF b[i] = a[j]
                 THEN prev[j]
                 ELSE Min2(prev[j] + 1, Min2(cur[j] + 1, prev[j + 1] + 1))),
               prev, i, a, b)

\* mutant: a deletion costs 2
RECURSIVE LevRowDel2(_, _, _, _, _)
LevRowDel2(cur, prev, i, a, b) ==
    LET j == Len(cur)
    IN  IF j > Len(a) THEN cur
        ELSE LevRowDel2(
               Append(cur,
                 IF b[i] = a[j]
                 THEN prev[j]
                 ELSE Min2(prev[j] + 1, Min2(cur[j] + 2, prev[j + 1] + 1))),
               prev, i, a, b)

LevNextRowDel2(prev, i, a, b) == LevRowDel2(<<i>>, prev, i, a, b)

LevNextRow(prev, i, a, b) == LevRow(<<i>>, prev, i, a, b)

RECURSIVE LevRows(_, _, _, _)
LevRows(prev, i, a, b) ==
    IF i > Len(b) THEN prev ELSE LevRows(LevNextRow(prev, i, a, b), i + 1, a, b)

\* matrix[b.length][a.length]; row 0 is matrix[0][j] = j
levenshteinDistance(a, b) ==
    LevRows([j \in 1..(Len(a) + 1) |-> j - 1], 1, a, b)[Len(a) + 1]

\* ((maxLength - distance) / maxLength) * 100 as the fraction num/den
\* (den = 0 is JavaScript's 0/0 = NaN, which compares false with everything)
calculateSimilarity(domain1, domain2) ==
    LET distance == levenshteinDistance(domain1, domain2)
        maxLength == Max2(Len(domain1), Len(domain2))
    IN  [num |-> (maxLength - distance) * 100, den |-> maxLength]

Whole(n) == [num |-> n, den |-> 1]

\* x > y on fractions; false when either is NaN
FracGt(x, y) == x.den > 0 /\ y.den > 0 /\ x.num * y.den > y.num * x.den

FracGe(x, y) == x.den > 0 /\ y.den > 0 /\ x.num * y.den >= y.num * x.den

FracEq(x, y) == x.den > 0 /\ y.den > 0 /\ x.num * y.den = y.num * x.den

HomoglyphKeys == {"a", "e", "i", "o", "p", "c", "x", "y", "n", "m"}

HOMOGLYPHS(c) ==
    CASE c = "a" -> <<"U+0430", "U+0251", "U+03B1">>
      [] c = "e" -> <<"U+0435", "U+0117", "U+0113">>
      [] c = "i" -> <<"U+0456", "U+0131", "l", "1">>
      [] c = "o" -> <<"U+043E", "0", "U+03BF">>
      [] c = "p" -> <<"U+0440", "U+03C1">>
      [] c = "c" -> <<"U+0441", "U+03F2">>
      [] c = "x" -> <<"U+0445", "U+00D7">>
      [] c = "y" -> <<"U+0443", "U+04AF">>
      [] c = "n" -> <<"U+0578", "U+057C">>
      [] c = "m" -> <<"U+043C", "U+1E43">>
      [] OTHER -> << >>

detectHomoglyph(suspiciousDomain, legitimateDomain) ==
    LET suspicious == ReplaceFirst(ToLowerCase(suspiciousDomain), DotOnion, << >>)
        legitimate == ToLowerCase(legitimateDomain)
    IN  IF suspicious = legitimate THEN FALSE
        ELSE \E i \in 0..(Len(legitimate) - 1) :
               \E h \in 1..Len(HOMOGLYPHS(legitimate[i + 1])) :
                 Includes(suspicious,
                          Substring(legitimate, 0, i)
                            \o <<HOMOGLYPHS(legitimate[i + 1])[h]>>
                            \o SubstringFrom(legitimate, i + 1))

NoTypo == [isTyposquatting |-> FALSE, type |-> "null", confidence |-> Whole(0)]

Typo(t, c) == [isTyposquatting |-> TRUE, type |-> t, confidence |-> c]

IsOmission(suspicious, legitimate) ==
    /\ Len(suspicious) = Len(legitimate) - 1
    /\ \E i \in 0..(Len(legitimate) - 1) :
         suspicious = Substring(legitimate, 0, i) \o SubstringFrom(legitimate, i + 1)

IsAddition(suspicious, legitimate) ==
    /\ Len(suspicious) = Len(legitimate) + 1
    /\ \E i \in 0..Len(legitimate) : \E c \in 1..26 :
         suspicious = Substring(legitimate, 0, i) \o <<LowerLetters[c]>>
                        \o SubstringFrom(legitimate, i)

IsSwap(suspicious, legitimate) ==
    /\ Len(suspicious) = Len(legitimate)
    /\ \E i \in 0..(Len(legitimate) - 2) :
         suspicious = Substring(legitimate, 0, i) \o <<legitimate[i + 2]>>
                        \o <<legitimate[i + 1]>> \o SubstringFrom(legitimate, i + 2)

\* mutant: the homoglyph check is made before the length-based checks
detectTyposquattingHomoglyphFirst(suspiciousDomain, legitimateDomain) ==
    LET suspicious == ReplaceFirst(ToLowerCase(suspiciousDomain), DotOnion, << >>)
        legitimate == ToLowerCase(legitimateDomain)
        similarity == calculateSimilarity(suspicious, legitimate)
    IN  IF suspicious = legitimate THEN NoTypo
        ELSE IF detectHomoglyph(suspicious, legitimate) THEN Typo("homoglyph", Whole(85))
        ELSE IF IsOmission(suspicious, legitimate)
             THEN Typo("character_omission", Whole(95))
        ELSE IF IsAddition(suspicious, legitimate)
             THEN Typo("character_addition", Whole(90))
        ELSE IF IsSwap(suspicious, legitimate) THEN Typo("character_swap", Whole(95))
        ELSE IF FracGt(similarity, Whole(80)) THEN Typo("high_similarity", similarity)
        ELSE NoTypo

detectTyposquatting(suspiciousDomain, legitimateDomain) ==
    LET suspicious == ReplaceFirst(ToLowerCase(suspiciousDomain), DotOnion, << >>)
        legitimate == ToLowerCase(legitimateDomain)
        similarity == calculateSimilarity(suspicious, legitimate)
    IN  IF suspicious = legitimate THEN NoTypo
        ELSE IF IsOmission(suspicious, legitimate)
             THEN Typo("character_omission", Whole(95))
        ELSE IF IsAddition(suspicious, legitimate)
             THEN Typo("character_addition", Whole(90))
        ELSE IF IsSwap(suspicious, legitimate) THEN Typo("character_swap", Whole(95))
        ELSE IF detectHomoglyph(suspicious, legitimate) THEN Typo("homoglyph", Whole(85))
        ELSE IF FracGt(similarity, Whole(80)) THEN Typo("high_similarity", similarity)
        ELSE NoTypo

NoMatch == [match |-> FALSE]

\* the result of the loop body for one keyword, NoMatch when the loop goes on
checkKeyword(domain, keyword) ==
    LET brand == ToLowerCase(keyword)
        typoResult == detectTyposquatting(domain, brand)
    IN  IF Includes(domain, brand)
        THEN [match |-> TRUE, keyword |-> keyword, type |-> "direct_match",
              confidence |-> Whole(100)]
        ELSE IF typoResult.isTyposquatting
        THEN [match |-> TRUE, keyword |-> keyword, type |-> typoResult.type,
              confidence |-> typoResult.confidence]
        ELSE NoMatch

\* for (const keyword of brandKeywords), from keyword k on: the first match returns
RECURSIVE checkBrandLoop(_, _, _)
checkBrandLoop(domain, brandKeywords, k) ==
    IF k > Len(brandKeywords) THEN NoMatch
    ELSE LET r == checkKeyword(domain, brandKeywords[k])
         IN  IF r.match THEN r ELSE checkBrandLoop(domain, brandKeywords, k + 1)

\* mutant: the loop keeps the last matching keyword instead of returning the first
RECURSIVE checkBrandLoopLast(_, _, _)
checkBrandLoopLast(domain, brandKeywords, k) ==
    IF k < 1 THEN NoMatch
    ELSE LET r == checkKeyword(domain, brandKeywords[k])
         IN  IF r.match THEN r ELSE checkBrandLoopLast(domain, brandKeywords, k - 1)

checkBrandSimilarityLast(onionDomain, brandKeywords) ==
    checkBrandLoopLast(ReplaceFirst(ToLowerCase(onionDomain), DotOnion, << >>),
                       brandKeywords, Len(brandKeywords))

checkBrandSimilarity(onionDomain, brandKeywords) ==
    checkBrandLoop(ReplaceFirst(ToLowerCase(onionDomain), DotOnion, << >>),
                   brandKeywords, 1)

(***************************************************************************)
(* multiEngineSearch.js: URL normalisation                                 *)
(***************************************************************************)
HttpScheme == <<"h","t","t","p",":","/","/">>

HttpsScheme == <<"h","t","t","p","s",":","/","/">>

\* url.replace(/^https?:\/\//, '')
StripScheme(url) ==
    IF StartsWith(url, HttpsScheme) THEN SubstringFrom(url, Len(HttpsScheme))
    ELSE IF StartsWith(url, HttpScheme) THEN SubstringFrom(url, Len(HttpScheme))
    ELSE url

\* mutant: the scheme is kept as it was found
normalizeOnionUrlKeepScheme(url) ==
    IF StartsWith(url, <<"h","t","t","p">>) THEN url ELSE HttpScheme \o url

normalizeOnionUrl(url) ==
    LET normalized == StripScheme(url)
    IN  IF ~StartsWith(normalized, <<"h","t","t","p">>)
        THEN HttpScheme \o normalized
        ELSE normalized

(***************************************************************************)
(* Inputs of the string functions.                                         *)
(***************************************************************************)
GenAlphabet == {"i", "l", "1"}

\* every string over GenAlphabet of length at most n
Strs(n) == UNION {[1..k -> GenAlphabet] : k \in 0..n}

S_google == <<"g","o","o","g","l","e">>

S_Google == <<"G","o","o","g","l","e">>

S_googel == <<"g","o","o","g","e","l">>

S_g00gle == <<"g","0","0","g","l","e">>

S_g0ogle == <<"g","0","o","g","l","e">>

S_gogle == <<"g","o","g","l","e">>

S_googgle == <<"g","o","o","g","g","l","e">>

S_goggle == <<"g","o","g","g","l","e">>

S_goo9gle == <<"g","o","o","9","g","l","e">>

S_googles == <<"g","o","o","g","l","e","s">>

S_g0ogles == <<"g","0","o","g","l","e","s">>

S_mygoogle_onion == <<"m","y","g","o","o","g","l","e",".","o","n","i","o","n">>

S_Googel_onion == <<"G","o","o","g","e","l",".","o","n","i","o","n">>

S_gogle_onion == <<"g","o","g","l","e",".","o","n","i","o","n">>

\* candidate domains: generated short strings and named examples, each with
\* at most one ".onion" in it
Domains ==
    Strs(MaxLen) \cup
    {S_google, S_googel, S_g00gle, S_g0ogle, S_gogle, S_googgle, S_goggle,
     S_goo9gle, S_g0ogles, S_mygoogle_onion, S_Googel_onion, S_gogle_onion}

Keywords == Strs(MaxLen) \cup {S_google, S_Google, S_googles}

\* keywords of the generated lists of two and more keywords
ListKeywords == {<<"i","l">>, <<"l">>, <<"i","1">>, S_google, S_goggle}

KeywordLists ==
    {<<k>> : k \in Keywords} \cup
    UNION {[1..n -> ListKeywords] : n \in 2..MaxKeywords}

U_a == <<"a",".","o","n","i","o","n">>

U_A == <<"A",".","o","n","i","o","n">>

U_a_slash == <<"a",".","o","n","i","o","n","/">>

U_b == <<"b",".","o","n","i","o","n">>

U_httpd == <<"h","t","t","p","d",".","o","n","i","o","n">>

U_clearnet == <<"c",".","c","o","m">>

\* discovered links without a scheme, and with each way of writing one
BareLinks == {U_a, U_A, U_a_slash, U_b, U_httpd, U_clearnet}

Links ==
    BareLinks \cup {HttpScheme \o u : u \in BareLinks}
              \cup {HttpsScheme \o u : u \in BareLinks}
              \cup {<<"H","T","T","P",":","/","/">> \o U_a}

(***************************************************************************)
(* multiEngineSearch.js: engines, responses, parsing                       *)
(***************************************************************************)
E_ahmia == <<"a","h","m","i","a">>

E_Ahmia == <<"A","h","m","i","a">>

E_tor66 == <<"t","o","r","6","6">>

E_torch == <<"t","o","r","c","h">>

E_nosuch == <<"n","o","s","u","c","h">>

\* Object.keys(TOP_SEARCH_ENGINES) in insertion order; three of the twenty
\* configured engines: the token-based one and two standard ones
TOP_SEARCH_ENGINES_KEYS == <<E_ahmia, E_tor66, E_torch>>

Range(f) == {f[x] : x \in DOMAIN f}

\* TOP_SEARCH_ENGINES[name]: the base URL (named by its key), or undefined
TOP_SEARCH_ENGINES(name) ==
    IF name \in Range(TOP_SEARCH_ENGINES_KEYS)
    THEN [defined |-> TRUE, base |-> name]
    ELSE [defined |-> FALSE, base |-> << >>]

\* engines.filter(e => TOP_SEARCH_ENGINES[e.toLowerCase()])
RECURSIVE FilterEngines(_)
FilterEngines(engines) ==
    IF engines = << >> THEN << >>
    ELSE (IF TOP_SEARCH_ENGINES(ToLowerCase(Head(engines))).defined
          THEN <<Head(engines)>> ELSE << >>) \o FilterEngines(Tail(engines))

\* engines ? engines.filter(...) : Object.keys(TOP_SEARCH_ENGINES)
EnginesToUse(engines) ==
    IF engines.isNull THEN TOP_SEARCH_ENGINES_KEYS ELSE FilterEngines(engines.list)

\* the rows a standard engine's selector finds: the href of each anchor
StandardResponses ==
    { <<HttpScheme \o U_a, HttpsScheme \o U_a, U_b>>,
      <<HttpsScheme \o U_a>>,
      <<HttpScheme \o U_b, HttpScheme \o U_A, HttpScheme \o U_a_slash>>,
      <<HttpScheme \o U_clearnet>> }

\* the rows of ahmia's result page: the href of each 'li.result a', by its
\* form: redirect_url=<encoded target>, /address/<host>, or a plain link
AhmiaResponses ==
    { <<[form |-> "redirect_url", target |-> HttpScheme \o U_a],
        [form |-> "address", target |-> U_b]>>,
      <<[form |-> "plain", target |-> HttpsScheme \o U_a],
        [form |-> "redirect_url", target |-> HttpScheme \o U_clearnet]>>,
      << >> }

\* the url an ahmia href stands for; << >> is null
AhmiaUrl(href) ==
    CASE href.form = "redirect_url" ->
           IF StartsWith(href.target, <<"h","t","t","p">>) THEN href.target ELSE << >>
      [] href.form = "address" -> HttpScheme \o href.target
      [] href.form = "plain" ->
           IF Includes(href.target, DotOnion) THEN href.target ELSE << >>
      [] OTHER -> << >>

\* one result row; title, description and found_at are left out
SearchResult(normalizedUrl, engineName) ==
    [url |-> normalizedUrl, source_engine |-> engineName]

\* mutant: the url is recorded without looking it up in seenUrls
ParseUrlNoCheck(url, engineName, acc) ==
    IF url # << >> /\ Includes(url, DotOnion)
    THEN LET normalizedUrl == normalizeOnionUrl(url)
         IN  [results |-> Append(acc.results, SearchResult(normalizedUrl, engineName)),
              seen |-> acc.seen \cup {normalizedUrl},
              reached |-> acc.reached \cup {normalizedUrl}]
    ELSE acc

\* the body of the .each callback for one url: acc is the results so far, the
\* shared seenUrls, and the normalized urls this loop has reached
ParseUrl(url, engineName, acc) ==
    IF url # << >> /\ Includes(url, DotOnion)
    THEN LET normalizedUrl == normalizeOnionUrl(url)
         IN  IF normalizedUrl \notin acc.seen
             THEN [results |-> Append(acc.results, SearchResult(normalizedUrl, engineName)),
                   seen |-> acc.seen \cup {normalizedUrl},
                   reached |-> acc.reached \cup {normalizedUrl}]
             ELSE [acc EXCEPT !.reached = @ \cup {normalizedUrl}]
    ELSE acc

\* $(selector).each(...): stops (return false) once maxResults are collected
RECURSIVE EachRow(_, _, _, _, _)
EachRow(urls, k, engineName, maxResults, acc) ==
    IF k > Len(urls) \/ Len(acc.results) >= maxResults THEN acc
    ELSE EachRow(urls, k + 1, engineName, maxResults,
                 ParseUrl(urls[k], engineName, acc))

parseSearchResults(engineName, html, maxResults, seenUrls) ==
    EachRow(html, 1, engineName, maxResults,
            [results |-> << >>, seen |-> seenUrls, reached |-> {}])

\* the result loop of searchAhmia, lines 157-203
parseAhmiaResults(html, maxResults, seenUrls) ==
    EachRow([k \in 1..Len(html) |-> AhmiaUrl(html[k])], 1, E_ahmia, maxResults,
            [results |-> << >>, seen |-> seenUrls, reached |-> {}])

\* what an engine task resolves with
Fulfilled(engineName, results, error) ==
    [engine |-> engineName, results |-> results, error |-> error]

\* a JavaScript array, the empty one too, is truthy
ArrayIsTruthy(a) == TRUE

\* the loop over engineResults, lines 71-86, from task i on
RECURSIVE SettleLoop(_, _, _, _)
SettleLoop(tasks, names, i, acc) ==
    IF i > Len(tasks) THEN acc
    ELSE SettleLoop(tasks, names, i + 1,
           IF tasks[i].status = "fulfilled" /\ ArrayIsTruthy(tasks[i].value.results)
           THEN [acc EXCEPT !.results = @ \o tasks[i].value.results]
           ELSE [acc EXCEPT !.errors =
                   Append(@, [engine |-> names[i], error |-> tasks[i].value.error])])

\* mutant: one failed engine fails the whole search, nothing is returned
CollectFailFast(tasks, names) ==
    IF \E i \in 1..Len(tasks) : tasks[i].value.error # "none"
    THEN [results |-> << >>, errors |-> << >>]
    ELSE SettleLoop(tasks, names, 1, [results |-> << >>, errors |-> << >>])

\* mutant: the results are pushed from the last engine of the list to the first
RECURSIVE SettleLoopDown(_, _, _, _)
SettleLoopDown(tasks, names, i, acc) ==
    IF i < 1 THEN acc
    ELSE SettleLoopDown(tasks, names, i - 1,
           [acc EXCEPT !.results = @ \o tasks[i].value.results])

CollectReversed(tasks, names) ==
    SettleLoopDown(tasks, names, Len(tasks), [results |-> << >>, errors |-> << >>])

Collect(tasks, names) ==
    SettleLoop(tasks, names, 1, [results |-> << >>, errors |-> << >>])

(***************************************************************************)
(* crawler/utils/htmlSimilarity.js (src/unnamed/part_000, lines 261-436).  *)
(*                                                                         *)
(* A number is the fraction [num, den]; den = 0 is NaN (0 / 0).  The       *)
(* arithmetic is exact: a double differs from the exact value by less than *)
(* 1e-13, so Math.round agrees with MathRound except on a value that close *)
(* to a half-integer.                                                      *)
(*                                                                         *)
(* A document is what cheerio.load makes of the html: the text of its      *)
(* title element, its elements in document order, each with its tag and    *)
(* its type, name and id attributes (empty when absent) and the tokens of  *)
(* its class attribute, and whether the body text has a login keyword.     *)
(* A type, an id and a class token are only compared for equality and are  *)
(* plain strings; a title and a name are sequences of units.               *)
(***************************************************************************)
\* most elements of a generated document
MaxElements == 2

RECURSIVE GCD(_, _)
GCD(a, b) == IF b = 0 THEN a ELSE GCD(b, a % b)

\* the fraction in lowest terms; NaN is [0, 0]
Reduce(n, d) ==
    IF d = 0 THEN [num |-> 0, den |-> 0]
    ELSE LET g == GCD(n, d) IN [num |-> n \div g, den |-> d \div g]

FracAdd(x, y) == Reduce(x.num * y.den + y.num * x.den, x.den * y.den)

FracMul(x, y) == Reduce(x.num * y.num, x.den * y.den)

\* a decimal literal with one digit after the point: 0.4 is Tenths(4)
Tenths(n) == [num |-> n, den |-> 10]

IsNaN(x) == x.den = 0

\* Math.round(x) for x >= 0: the nearest integer, a half rounds up; NaN stays NaN
MathRound(x) ==
    IF IsNaN(x) THEN [num |-> 0, den |-> 0]
    ELSE Whole((2 * x.num + x.den) \div (2 * x.den))

\* s.trim() (the only white space of the model is the blank)
RECURSIVE Trim(_)
Trim(s) ==
    IF s = << >> THEN s
    ELSE IF Head(s) = " " THEN Trim(Tail(s))
    ELSE IF s[Len(s)] = " " THEN Trim(SubSeq(s, 1, Len(s) - 1))
    ELSE s

\* array.filter(x => x): the strings that are not the empty string
RECURSIVE FilterNonEmpty(_, _)
FilterNonEmpty(a, empty) ==
    IF a = << >> THEN << >>
    ELSE IF Head(a) = empty THEN FilterNonEmpty(Tail(a), empty)
    ELSE <<Head(a)>> \o FilterNonEmpty(Tail(a), empty)

\* the elements a selector matches, in document order
RECURSIVE Select(_, _)
Select(elements, tag) ==
    IF elements = << >> THEN << >>
    ELSE IF Head(elements).tag = tag THEN <<Head(elements)>> \o Select(Tail(elements), tag)
    ELSE Select(Tail(elements), tag)

\* features.inputFields: type defaults to 'text', name and id to ''
InputFields(doc) ==
    LET inputs == Select(doc.elements, "input")
    IN  [k \in 1..Len(inputs) |->
           [type |-> IF inputs[k].type = "" THEN "text" ELSE inputs[k].type,
            name |-> inputs[k].name,
            id |-> inputs[k].id]]

\* the class tokens of the document in document order ('' tokens are skipped)
RECURSIVE ClassTokens(_)
ClassTokens(elements) ==
    IF elements = << >> THEN << >>
    ELSE FilterNonEmpty(Head(elements).class, "") \o ClassTokens(Tail(elements))

\* Object.keys(classMap): the distinct tokens in the order of their first use
RECURSIVE Distinct(_, _)
Distinct(a, seen) ==
    IF a = << >> THEN << >>
    ELSE IF Head(a) \in seen THEN Distinct(Tail(a), seen)
    ELSE <<Head(a)>> \o Distinct(Tail(a), seen \cup {Head(a)})

\* classMap[cls]
ClassCount(tokens, cls) == Cardinality({k \in 1..Len(tokens) : tokens[k] = cls})

\* keys.sort((a, b) => classMap[b] - classMap[a]): stable, most used first
RECURSIVE InsertByCount(_, _, _)
InsertByCount(sorted, cls, tokens) ==
    IF sorted = << >> THEN <<cls>>
    ELSE IF ClassCount(tokens, Head(sorted)) >= ClassCount(tokens, cls)
         THEN <<Head(sorted)>> \o InsertByCount(Tail(sorted), cls, tokens)
         ELSE <<cls>> \o sorted

RECURSIVE SortByCount(_, _, _)
SortByCount(keys, sorted, tokens) ==
    IF keys = << >> THEN sorted
    ELSE SortByCount(Tail(keys), InsertByCount(sorted, Head(keys), tokens), tokens)

\* .slice(0, 20) of the sorted class names
TopClasses == 20

CssClasses(doc) ==
    LET tokens == ClassTokens(doc.elements)
        sorted == SortByCount(Distinct(tokens, {}), << >>, tokens)
    IN  SubSeq(sorted, 1, Min2(TopClasses, Len(sorted)))

\* features.ids: the non-empty id of every element that has one
Ids(doc) == FilterNonEmpty([k \in 1..Len(doc.elements) |-> doc.elements[k].id], "")

\* links, images and formCount are extracted too; no comparison reads them
extractStructuralFeatures(html) ==
    [title |-> Trim(html.title),
     inputFields |-> InputFields(html),
     cssClasses |-> CssClasses(html),
     ids |-> Ids(html)]

\* the mutant: two empty sets count as identical
jaccardSimilarityEmptyIsOne(set1, set2) ==
    LET s1 == Range(set1)
        s2 == Range(set2)
    IN  IF Cardinality(s1 \cup s2) = 0 THEN Whole(1)
        ELSE [num |-> Cardinality(s1 \cap s2), den |-> Cardinality(s1 \cup s2)]

\* the mutant: the ratio without the guard of the empty union
jaccardSimilarityNoGuard(set1, set2) ==
    LET s1 == Range(set1)
        s2 == Range(set2)
    IN  [num |-> Cardinality(s1 \cap s2), den |-> Cardinality(s1 \cup s2)]

jaccardSimilarity(set1, set2) ==
    LET s1 == Range(set1)
        s2 == Range(set2)
        intersection == s1 \cap s2
        union == s1 \cup s2
    IN  IF Cardinality(union) = 0 THEN Whole(0)
        ELSE [num |-> Cardinality(intersection), den |-> Cardinality(union)]

\* inputs.map(i => i.type), .name, .id
FieldOf(inputs, f) == [k \in 1..Len(inputs) |-> inputs[k][f]]

compareInputFields(inputs1, inputs2) ==
    IF Len(inputs1) = 0 /\ Len(inputs2) = 0 THEN Whole(0)
    ELSE
      LET typeSimilarity ==
              jaccardSimilarity(FieldOf(inputs1, "type"), FieldOf(inputs2, "type"))
          nameSimilarity ==
              jaccardSimilarity(FilterNonEmpty(FieldOf(inputs1, "name"), << >>),
                                FilterNonEmpty(FieldOf(inputs2, "name"), << >>))
          idSimilarity ==
              jaccardSimilarity(FilterNonEmpty(FieldOf(inputs1, "id"), ""),
                                FilterNonEmpty(FieldOf(inputs2, "id"), ""))
      IN  FracAdd(FracAdd(FracMul(typeSimilarity, Tenths(4)),
                          FracMul(nameSimilarity, Tenths(3))),
                  FracMul(idSimilarity, Tenths(3)))

\* the title comparison of lines 362-364
TitleSimilarity(title1, title2) ==
    IF title1 = title2 THEN Whole(1)
    ELSE IF Includes(title1, title2) \/ Includes(title2, title1) THEN Tenths(5)
    ELSE Whole(0)

compareHtmlStructure(html1, html2) ==
    LET features1 == extractStructuralFeatures(html1)
        features2 == extractStructuralFeatures(html2)
        inputSimilarity == compareInputFields(features1.inputFields, features2.inputFields)
        cssSimilarity == jaccardSimilarity(features1.cssClasses, features2.cssClasses)
        idSimilarity == jaccardSimilarity(features1.ids, features2.ids)
        titleSimilarity == TitleSimilarity(features1.title, features2.title)
        overallSimilarity ==
            FracMul(FracAdd(FracAdd(FracAdd(FracMul(inputSimilarity, Tenths(4)),
                                            FracMul(cssSimilarity, Tenths(3))),
                                    FracMul(idSimilarity, Tenths(2))),
                            FracMul(titleSimilarity, Tenths(1))),
                    Whole(100))
    IN  [overall |-> MathRound(overallSimilarity),
         inputFields |-> MathRound(FracMul(inputSimilarity, Whole(100))),
         cssClasses |-> MathRound(FracMul(cssSimilarity, Whole(100))),
         ids |-> MathRound(FracMul(idSimilarity, Whole(100))),
         title |-> MathRound(FracMul(titleSimilarity, Whole(100)))]

\* hasLoginForm: a password input and (a login keyword in the body text or
\* an input of type email or with "user" or "email" in its name)
hasLoginForm(html) ==
    LET inputs == Select(html.elements, "input")
        hasPasswordInput == \E k \in 1..Len(inputs) : inputs[k].type = "password"
        hasLoginKeywords == html.loginText
        hasUsernameInput ==
            \E k \in 1..Len(inputs) :
                \/ inputs[k].type = "email"
                \/ Includes(inputs[k].name, <<"u","s","e","r">>)
                \/ Includes(inputs[k].name, <<"e","m","a","i","l">>)
    IN  hasPasswordInput /\ (hasLoginKeywords \/ hasUsernameInput)

(***************************************************************************)
(* crawler/features/brandImpersonation.js (src/unnamed/part_000, lines     *)
(* 1-259): the analysis of the search results.                             *)
(*                                                                         *)
(* A property a JavaScript object does not have reads as undefined: a      *)
(* search result without url is a record without the url field, and the    *)
(* optional properties of a finding hold "undefined" until they are set.   *)
(* The body fetchUrl resolves with is the empty string or a page: the      *)
(* document of its html and what dataExtractor.extractAllData finds in it. *)
(***************************************************************************)
\* most search results handed to analyzeSearchResults
MaxCandidates == 2

\* similarityThreshold = 70 unless the caller gives one
DefaultSimilarityThreshold == 70

\* the finding of lines 94-104
NewFinding(searchResult) ==
    [url |-> searchResult.url,
     title |-> searchResult.title,
     description |-> searchResult.description,
     indicators |-> << >>,
     severity |-> "low",
     severity_score |-> Whole(0),
     was_crawled |-> "undefined",
     crawl_error |-> "undefined",
     crawl_reason |-> "undefined"]

\* finding.indicators.push(indicator); finding.severity_score += weight
AddIndicator(finding, indicator, weight) ==
    [finding EXCEPT !.indicators = Append(@, indicator),
                    !.severity_score = FracAdd(@, weight)]

\* companyProfile.keywords.filter(keyword => textToCheck.includes(keyword.toLowerCase()))
RECURSIVE KeywordMatches(_, _)
KeywordMatches(keywords, textToCheck) ==
    IF keywords = << >> THEN << >>
    ELSE IF Includes(textToCheck, ToLowerCase(Head(keywords)))
         THEN <<Head(keywords)>> \o KeywordMatches(Tail(keywords), textToCheck)
         ELSE KeywordMatches(Tail(keywords), textToCheck)

\* `${searchResult.title} ${searchResult.description}`.toLowerCase()
TextToCheck(searchResult) ==
    ToLowerCase(searchResult.title \o <<" ">> \o searchResult.description)

\* lines 107-110
DomainCheck(searchResult, companyProfile) ==
    checkBrandSimilarity(searchResult.url, companyProfile.keywords)

\* steps 1 and 2 of analyzeSearchResult: the indicators that need no crawling
MetadataScoring(searchResult, companyProfile, domainCheck) ==
    LET f0 == NewFinding(searchResult)
        f1 == IF domainCheck.match
              THEN AddIndicator(f0,
                       [type |-> "domain_similarity",
                        confidence |-> domainCheck.confidence,
                        matched_keyword |-> domainCheck.keyword,
                        similarity_type |-> domainCheck.type],
                       FracMul(domainCheck.confidence, Tenths(1)))
              ELSE f0
        keywordMatches == KeywordMatches(companyProfile.keywords, TextToCheck(searchResult))
    IN  IF Len(keywordMatches) > 0
        THEN AddIndicator(f1,
                 [type |-> "keyword_in_metadata",
                  keywords |-> keywordMatches,
                  location |-> "title_or_description"],
                 Whole(1))
        ELSE f1

\* a string is truthy unless it is empty; null is falsy
Truthy(html) == html.kind = "html"

\* the mutant: the gate opens only when both reasons hold
shouldCrawlBoth(domainCheck, realSiteHtml, options) ==
    /\ domainCheck.match
    /\ FracGe(domainCheck.confidence, Whole(options.similarityThreshold))
    /\ options.checkSimilarity /\ Truthy(realSiteHtml)

\* the mutant: the gate ignores the domain match
shouldCrawlOnReference(domainCheck, realSiteHtml, options) ==
    options.checkSimilarity /\ Truthy(realSiteHtml)

\* step 3, lines 139-142
shouldCrawl(domainCheck, realSiteHtml, options) ==
    \/ /\ domainCheck.match
       /\ FracGe(domainCheck.confidence, Whole(options.similarityThreshold))
    \/ options.checkSimilarity /\ Truthy(realSiteHtml)

\* the mutant: a skipped result is marked as crawled
SkipCrawlMarksCrawled(finding) ==
    [finding EXCEPT !.was_crawled = "true",
                    !.crawl_reason = "Low similarity - crawling skipped for efficiency"]

\* the else branch of the gate, lines 220-223
SkipCrawl(finding) ==
    [finding EXCEPT !.was_crawled = "false",
                    !.crawl_reason = "Low similarity - crawling skipped for efficiency"]

\* the mutant: the failure discards the indicators gathered so far
CrawlFailedDropsIndicators(finding, message) ==
    [finding EXCEPT !.crawl_error = message, !.was_crawled = "false",
                    !.indicators = << >>, !.severity_score = Whole(0)]

\* the catch block of lines 216-219
CrawlFailed(finding, message) ==
    [finding EXCEPT !.crawl_error = message, !.was_crawled = "false"]

\* the mutant: the thresholds are exclusive
calculateSeverityStrict(score) ==
    IF FracGt(score, Whole(9)) THEN "critical"
    ELSE IF FracGt(score, Whole(7)) THEN "high"
    ELSE IF FracGt(score, Whole(4)) THEN "medium"
    ELSE "low"

calculateSeverity(score) ==
    IF FracGe(score, Whole(9)) THEN "critical"
    ELSE IF FracGe(score, Whole(7)) THEN "high"
    ELSE IF FracGe(score, Whole(4)) THEN "medium"
    ELSE "low"

\* lines 160-167: keywords in the content
CheckKeywordMatch(finding, page) ==
    IF page.keywords_found
    THEN AddIndicator(finding, [type |-> "keyword_match"], Whole(2))
    ELSE finding

\* lines 170-176: login form
CheckLoginForm(finding, page) ==
    IF hasLoginForm(page.doc)
    THEN AddIndicator(finding, [type |-> "login_form_detected", confidence |-> 90], Whole(3))
    ELSE finding

\* lines 179-190: structure compared with the real site
CheckHtmlSimilarity(finding, page, realSiteHtml, options) ==
    IF options.checkSimilarity /\ Truthy(realSiteHtml) /\ hasLoginForm(page.doc)
    THEN LET similarity == compareHtmlStructure(page.doc, realSiteHtml.doc)
         IN  IF FracGt(similarity.overall, Whole(60))
             THEN AddIndicator(finding,
                      [type |-> "html_similarity",
                       similarity_score |-> similarity.overall,
                       details |-> similarity],
                      FracMul(similarity.overall, Tenths(1)))
             ELSE finding
    ELSE finding

\* the mutant: the credentials indicator is pushed and its weight forgotten
CheckCredentialsUnscored(finding, page) ==
    IF page.credentials
    THEN AddIndicator(finding, [type |-> "credentials_found"], Whole(0))
    ELSE finding

\* lines 193-199: credentials
CheckCredentials(finding, page) ==
    IF page.credentials
    THEN AddIndicator(finding, [type |-> "credentials_found"], Whole(5))
    ELSE finding

\* lines 202-204 throw a TypeError when the page has a clearnet link and
\* companyProfile.domains is undefined
DomainsThrows(page, companyProfile) ==
    page.clearnet_links # "none" /\ ~companyProfile.hasDomains

\* lines 202-212: company domains in the links
CheckCompanyDomains(finding, page) ==
    IF page.clearnet_links = "company"
    THEN AddIndicator(finding, [type |-> "company_domain_mentioned"], Whole(2))
    ELSE finding

\* the try block of lines 145-215 once fetchUrl has resolved with page
PostFetch(finding, page, companyProfile, realSiteHtml, options) ==
    IF page.kind # "html" THEN finding
    ELSE
      LET f1 == CheckKeywordMatch(finding, page)
          f2 == CheckLoginForm(f1, page)
          f3 == CheckHtmlSimilarity(f2, page, realSiteHtml, options)
          f4 == CheckCredentials(f3, page)
      IN  IF DomainsThrows(page, companyProfile)
          THEN CrawlFailed(f4, "Cannot read properties of undefined (reading 'some')")
          ELSE [CheckCompanyDomains(f4, page) EXCEPT !.was_crawled = "true"]

\* line 226
Finalize(finding) ==
    [finding EXCEPT !.severity = calculateSeverity(finding.severity_score)]

\* the mutant: every finding is returned
ReturnsAlways(finding) == TRUE

\* line 229: only findings with indicators are returned
Returns(finding) == Len(finding.indicators) > 0

\* severityOrder of line 78
severityOrder(severity) ==
    CASE severity = "critical" -> 0
      [] severity = "high" -> 1
      [] severity = "medium" -> 2
      [] severity = "low" -> 3

\* the place of finding f in a list sorted by severityOrder: after the
\* findings that do not compare greater (Array.prototype.sort is stable)
RECURSIVE InsertBySeverity(_, _)
InsertBySeverity(sorted, f) ==
    IF sorted = << >> THEN <<f>>
    ELSE IF severityOrder(Head(sorted).severity) - severityOrder(f.severity) <= 0
         THEN <<Head(sorted)>> \o InsertBySeverity(Tail(sorted), f)
         ELSE <<f>> \o sorted

RECURSIVE SortLoop(_, _)
SortLoop(findings, sorted) ==
    IF findings = << >> THEN sorted
    ELSE SortLoop(Tail(findings), InsertBySeverity(sorted, Head(findings)))

\* the mutant: a finding is placed before the findings that compare equal
RECURSIVE InsertBeforeEqual(_, _)
InsertBeforeEqual(sorted, f) ==
    IF sorted = << >> THEN <<f>>
    ELSE IF severityOrder(Head(sorted).severity) - severityOrder(f.severity) < 0
         THEN <<Head(sorted)>> \o InsertBeforeEqual(Tail(sorted), f)
         ELSE <<f>> \o sorted

RECURSIVE SortLoopUnstable(_, _)
SortLoopUnstable(findings, sorted) ==
    IF findings = << >> THEN sorted
    ELSE SortLoopUnstable(Tail(findings), InsertBeforeEqual(sorted, Head(findings)))

SortBySeverityUnstable(findings) == SortLoopUnstable(findings, << >>)

\* results.findings.sort((a, b) => severityOrder[a.severity] - severityOrder[b.severity])
SortBySeverity(findings) == SortLoop(findings, << >>)

\* lines 32-44
NewResults ==
    [totalFindings |-> 0,
     findings |-> << >>,
     severityCounts |-> [critical |-> 0, high |-> 0, medium |-> 0, low |-> 0]]

\* lines 66-69: a finding is pushed and counted, null is not
Collected(results, finding) ==
    IF Returns(finding)
    THEN [results EXCEPT !.findings = Append(@, finding),
                         !.severityCounts[finding.severity] = @ + 1]
    ELSE results

\* lines 75-79, after the loop
Finish(results) ==
    [results EXCEPT !.totalFindings = Len(results.findings),
                    !.findings = SortBySeverity(results.findings)]

(***************************************************************************)
(* Documents handed to the structural comparison.                          *)
(***************************************************************************)
N_pwd == <<"p","w","d">>

N_user == <<"u","s","e","r">>

T_acme == <<"A","c","m","e">>

T_acme_padded == <<" ","A","c","m","e"," ">>

T_acme_login == <<"A","c","m","e"," ","L","o","g","i","n">>

\* <input type="password" name="pwd">
El_password == [tag |-> "input", type |-> "password", name |-> N_pwd, id |-> "", class |-> << >>]

\* <input type="email" name="user">
El_email == [tag |-> "input", type |-> "email", name |-> N_user, id |-> "", class |-> << >>]

\* <input id="q" class="box">
El_text == [tag |-> "input", type |-> "", name |-> << >>, id |-> "q", class |-> <<"box">>]

\* <div id="main" class="box dark">
El_div == [tag |-> "div", type |-> "", name |-> << >>, id |-> "main", class |-> <<"box", "dark">>]

Elements == {El_password, El_email, El_text, El_div}

Titles == {<< >>, T_acme, T_acme_padded, T_acme_login}

Document(title, elements, loginText) ==
    [title |-> title, elements |-> elements, loginText |-> loginText]

Documents ==
    {Document(t, es, FALSE) :
       t \in Titles, es \in UNION {[1..n -> Elements] : n \in 0..MaxElements}}

(***************************************************************************)
(* State.                                                                  *)
(***************************************************************************)
VARIABLES
    \* one call of a string function: its name, arguments, result, position
    fn, args, ret, pc,
    \* one run of multiEngineSearch: the engines and maxResultsPerEngine
    \* arguments, enginesToUse, the engine tasks (searchPromises), the shared
    \* seenUrls, the returned object, and the position of multiEngineSearch
    engines, maxResults, enginesToUse, task, seenUrls, out, mpc,
    \* history of the run: the tasks in the order their responses were
    \* parsed, and the normalized urls each task's parse loop reached
    parsedOrder, reached,
    \* one run of analyzeSearchResults: its companyProfile, options and
    \* searchResults arguments, realSiteHtml, the results object, the index of
    \* the search result the loop is at, the finding of the search result
    \* whose page is being fetched, and the position of analyzeSearchResults
    profile, analysisOptions, searchResults, realSite, analysis, idx, current, apc,
    \* history of the run: the search results whose page was requested, in
    \* order, and what became of each search result
    fetches, outcome,
    \* one run of runFullScan: its enabled features, the position of
    \* runFullScan, the index of the keyword the search loop is at and
    \* allSearchResults
    enabledFeatures, spc, kw, allSearchResults,
    \* history of the run: the keywords multiEngineSearch was called with
    queries,
    \* the session manager: the session of one POST /api/session/create (its
    \* container, its session:<id> key in Redis and the key's time to live
    \* in seconds) and the seconds until the next run of the cleanup timer
    session, untilCleanup

callVars == <<fn, args, ret, pc>>

analysisVars ==
    <<profile, analysisOptions, searchResults, realSite, analysis, idx, current, apc,
      fetches, outcome>>

searchVars ==
    <<engines, maxResults, enginesToUse, task, seenUrls, out, mpc, parsedOrder, reached>>

scanVars == <<enabledFeatures, spc, kw, allSearchResults, queries>>

sessionVars == <<session, untilCleanup>>

vars == <<callVars, searchVars, analysisVars, scanVars, sessionVars>>

\* the values of the variables of the part that is not running
CallIdle == fn = "none" /\ args = << >> /\ ret = << >> /\ pc = "idle"

SearchIdle ==
    /\ engines = [isNull |-> TRUE, list |-> << >>]
    /\ maxResults = 0
    /\ enginesToUse = << >>
    /\ task = << >>
    /\ seenUrls = {}
    /\ out = [results |-> << >>, errors |-> << >>]
    /\ mpc = "idle"
    /\ parsedOrder = << >>
    /\ reached = << >>

NoHtml == [kind |-> "null"]

AnalysisIdle ==
    /\ profile = [keywords |-> << >>, realLoginUrl |-> FALSE, hasDomains |-> FALSE]
    /\ analysisOptions = [checkSimilarity |-> FALSE, downloadRealSite |-> FALSE,
                          similarityThreshold |-> 0]
    /\ searchResults = << >>
    /\ realSite = NoHtml
    /\ analysis = NewResults
    /\ idx = 0
    /\ current = << >>
    /\ apc = "idle"
    /\ fetches = << >>
    /\ outcome = << >>

ScanIdle ==
    /\ enabledFeatures = {}
    /\ spc = "idle"
    /\ kw = 0
    /\ allSearchResults = << >>
    /\ queries = << >>

\* no session was created, or its container was stopped long ago
NoSession == [container |-> "none", key |-> FALSE, ttl |-> 0]

SessionIdle == session = NoSession /\ untilCleanup = 0

(***************************************************************************)
(* Calls of the string functions.                                          *)
(***************************************************************************)
\* named pairs of longer strings for levenshteinDistance
LevExamples ==
    {<<a, b>> : a \in {S_google, S_g00gle, S_goggle}, b \in {S_google, S_gogle, S_googgle}}

\* a call of one of the functions with arguments of the input sets
CallInit ==
    /\ \/ /\ fn = "levenshteinDistance"
          /\ \/ \E a \in Strs(MaxLen), b \in Strs(MaxLen) : args = <<a, b>>
             \/ args \in LevExamples
       \/ /\ fn = "detectTyposquatting"
          /\ \E d \in Domains, k \in Keywords : args = <<d, k>>
       \/ /\ fn = "checkBrandSimilarity"
          /\ \E d \in Domains, ks \in KeywordLists : args = <<d, ks>>
       \/ /\ fn = "normalizeOnionUrl"
          /\ \E u \in Links : args = <<u>>
    /\ ret = << >>
    /\ pc = "call"
    /\ SearchIdle
    /\ AnalysisIdle
    /\ ScanIdle
    /\ SessionIdle

CallLevenshteinDistance ==
    /\ pc = "call" /\ fn = "levenshteinDistance"
    /\ ret' = levenshteinDistance(args[1], args[2])
    /\ pc' = "return"
    /\ UNCHANGED <<fn, args, searchVars, analysisVars, scanVars, sessionVars>>

CallDetectTyposquatting ==
    /\ pc = "call" /\ fn = "detectTyposquatting"
    /\ ret' = detectTyposquatting(args[1], args[2])
    /\ pc' = "return"
    /\ UNCHANGED <<fn, args, searchVars, analysisVars, scanVars, sessionVars>>

CallCheckBrandSimilarity ==
    /\ pc = "call" /\ fn = "checkBrandSimilarity"
    /\ ret' = checkBrandSimilarity(args[1], args[2])
    /\ pc' = "return"
    /\ UNCHANGED <<fn, args, searchVars, analysisVars, scanVars, sessionVars>>

CallNormalizeOnionUrl ==
    /\ pc = "call" /\ fn = "normalizeOnionUrl"
    /\ ret' = normalizeOnionUrl(args[1])
    /\ pc' = "return"
    /\ UNCHANGED <<fn, args, searchVars, analysisVars, scanVars, sessionVars>>

CallNext ==
    \/ CallLevenshteinDistance
    \/ CallDetectTyposquatting
    \/ CallCheckBrandSimilarity
    \/ CallNormalizeOnionUrl

CallSpec == CallInit /\ [][CallNext]_vars

(***************************************************************************)
(* Calls of compareHtmlStructure.                                          *)
(***************************************************************************)
HtmlInit ==
    /\ fn = "compareHtmlStructure"
    /\ \E html1 \in Documents, html2 \in Documents : args = <<html1, html2>>
    /\ ret = << >>
    /\ pc = "call"
    /\ SearchIdle
    /\ AnalysisIdle
    /\ ScanIdle
    /\ SessionIdle

CallCompareHtmlStructure ==
    /\ pc = "call" /\ fn = "compareHtmlStructure"
    /\ ret' = compareHtmlStructure(args[1], args[2])
    /\ pc' = "return"
    /\ UNCHANGED <<fn, args, searchVars, analysisVars, scanVars, sessionVars>>

HtmlNext == CallCompareHtmlStructure

HtmlSpec == HtmlInit /\ [][HtmlNext]_vars

(***************************************************************************)
(* One run of multiEngineSearch.                                           *)
(***************************************************************************)
\* maxResultsPerEngine = 20 unless the caller gives one
DefaultMaxResultsPerEngine == 20

\* the small maxResultsPerEngine a caller gives
SmallMaxResults == 1

CallerEngines == {E_ahmia, E_Ahmia, E_torch, E_nosuch}

EngineArguments ==
    {[isNull |-> TRUE, list |-> << >>]} \cup
    {[isNull |-> FALSE, list |-> l] :
       l \in UNION {[1..n -> CallerEngines] : n \in 0..MaxEngines}}

FetchErrors == {"Timeout", "Connection refused"}

\* patterns[engineName] || `${engineUrl}/search?q=${encodedQuery}`: the
\* search url of a standard engine, by its base and the pattern of its path
buildSearchUrl(engineName, engineUrl) ==
    [kind |-> "search",
     base |-> engineUrl,
     path |-> IF engineName = E_torch THEN "/search?query=&action=search" ELSE "/search?q=",
     token |-> FALSE]

\* axiosInstance.get(baseUrl + '/') of searchAhmia
HomeRequest(baseUrl) == [kind |-> "home", base |-> baseUrl, path |-> "/", token |-> FALSE]

\* the mutant: ahmia's search request is built without the token
AhmiaSearchRequestNoToken(baseUrl) ==
    [kind |-> "search", base |-> baseUrl, path |-> "/search/?q=", token |-> FALSE]

\* `${baseUrl}/search/?q=${encodeURIComponent(query)}&${paramName}=${paramValue}`
AhmiaSearchRequest(baseUrl) ==
    [kind |-> "search", base |-> baseUrl, path |-> "/search/?q=", token |-> TRUE]

\* searchEngine(engineName, ...) up to its first await: ahmia fetches its
\* home page, every other engine its search url
StartTask(engineName) ==
    [name |-> engineName,
     engineUrl |-> TOP_SEARCH_ENGINES(engineName),
     pc |-> IF engineName = E_ahmia THEN "home" ELSE "fetch",
     status |-> "pending",
     value |-> Fulfilled(<< >>, << >>, "none"),
     token |-> "unknown",
     requests |-> IF engineName = E_ahmia
                  THEN <<HomeRequest(TOP_SEARCH_ENGINES(engineName))>>
                  ELSE <<buildSearchUrl(engineName, TOP_SEARCH_ENGINES(engineName))>>]

\* the task returns: its promise is fulfilled with value v
Settle(t, v) == [t EXCEPT !.pc = "done", !.status = "fulfilled", !.value = v]

SearchInit ==
    /\ engines \in EngineArguments
    /\ maxResults \in {SmallMaxResults, DefaultMaxResultsPerEngine}
    /\ enginesToUse = EnginesToUse(engines)
    /\ task = [i \in 1..Len(enginesToUse) |-> StartTask(enginesToUse[i])]
    /\ seenUrls = {}
    /\ out = [results |-> << >>, errors |-> << >>]
    /\ mpc = "awaiting"
    /\ parsedOrder = << >>
    /\ reached = [i \in 1..Len(enginesToUse) |-> {}]
    /\ CallIdle
    /\ AnalysisIdle
    /\ ScanIdle
    /\ SessionIdle

\* searchAhmia step 1 succeeds: the hidden input has a name and a value
HomePageTokenFound(i) ==
    /\ task[i].pc = "home"
    /\ task' = [task EXCEPT ![i].pc = "search",
                            ![i].token = "found",
                            ![i].requests = Append(@, AhmiaSearchRequest(task[i].engineUrl))]
    /\ UNCHANGED <<engines, maxResults, enginesToUse, seenUrls, out, mpc,
                   parsedOrder, reached, callVars, analysisVars, scanVars, sessionVars>>

\* searchAhmia step 1: the home page has no hidden input with name and value
TokenMissing(i) ==
    /\ task[i].pc = "home"
    /\ task' = [task EXCEPT
                  ![i] = [Settle(@, Fulfilled(E_ahmia, << >>, "Could not find search token"))
                            EXCEPT !.token = "missing"]]
    /\ UNCHANGED <<engines, maxResults, enginesToUse, seenUrls, out, mpc,
                   parsedOrder, reached, callVars, analysisVars, scanVars, sessionVars>>

\* a request of the task times out or fails; the catch block returns the error
FetchFails(i, e) ==
    /\ task[i].pc \in {"home", "search", "fetch"}
    /\ task' = [task EXCEPT
                  ![i] = Settle(@, Fulfilled(IF @.pc = "fetch" THEN @.name ELSE E_ahmia,
                                             << >>, e))]
    /\ UNCHANGED <<engines, maxResults, enginesToUse, seenUrls, out, mpc,
                   parsedOrder, reached, callVars, analysisVars, scanVars, sessionVars>>

\* the response arrives and cheerio.load throws on it
ParseFails(i) ==
    /\ task[i].pc \in {"search", "fetch"}
    /\ task[i].engineUrl.defined
    /\ task' = [task EXCEPT
                  ![i] = Settle(@, Fulfilled(IF @.pc = "fetch" THEN @.name ELSE E_ahmia,
                                             << >>, "parse error"))]
    /\ UNCHANGED <<engines, maxResults, enginesToUse, seenUrls, out, mpc,
                   parsedOrder, reached, callVars, analysisVars, scanVars, sessionVars>>

\* a standard engine's response arrives and is parsed in one go
ResponseParsed(i, html) ==
    /\ task[i].pc = "fetch"
    /\ task[i].engineUrl.defined
    /\ LET p == parseSearchResults(task[i].name, html, maxResults, seenUrls)
       IN  /\ task' = [task EXCEPT
                         ![i] = Settle(@, Fulfilled(@.name, p.results, "none"))]
           /\ seenUrls' = p.seen
           /\ reached' = [reached EXCEPT ![i] = p.reached]
    /\ parsedOrder' = Append(parsedOrder, i)
    /\ UNCHANGED <<engines, maxResults, enginesToUse, out, mpc, callVars, analysisVars, scanVars, sessionVars>>

\* ahmia's search response arrives and is parsed in one go
AhmiaResponseParsed(i, html) ==
    /\ task[i].pc = "search"
    /\ LET p == parseAhmiaResults(html, maxResults, seenUrls)
       IN  /\ task' = [task EXCEPT
                         ![i] = Settle(@, Fulfilled(E_ahmia, p.results, "none"))]
           /\ seenUrls' = p.seen
           /\ reached' = [reached EXCEPT ![i] = p.reached]
    /\ parsedOrder' = Append(parsedOrder, i)
    /\ UNCHANGED <<engines, maxResults, enginesToUse, out, mpc, callVars, analysisVars, scanVars, sessionVars>>

\* Promise.allSettled resolves; lines 71-91 build the returned object
Aggregate ==
    /\ mpc = "awaiting"
    /\ \A i \in 1..Len(task) : task[i].status = "fulfilled"
    /\ LET c == Collect(task, enginesToUse)
       IN  out' = [engines_used |-> enginesToUse,
                   total_engines |-> Len(enginesToUse),
                   results |-> c.results,
                   errors |-> c.errors,
                   total_results |-> Len(c.results)]
    /\ mpc' = "returned"
    /\ UNCHANGED <<engines, maxResults, enginesToUse, task, seenUrls,
                   parsedOrder, reached, callVars, analysisVars, scanVars, sessionVars>>

SearchNext ==
    \/ \E i \in 1..Len(task) : HomePageTokenFound(i)
    \/ \E i \in 1..Len(task) : TokenMissing(i)
    \/ \E i \in 1..Len(task) : \E e \in FetchErrors : FetchFails(i, e)
    \/ \E i \in 1..Len(task) : ParseFails(i)
    \/ \E i \in 1..Len(task) : \E html \in StandardResponses : ResponseParsed(i, html)
    \/ \E i \in 1..Len(task) : \E html \in AhmiaResponses : AhmiaResponseParsed(i, html)
    \/ Aggregate

SearchSpec == SearchInit /\ [][SearchNext]_vars

(***************************************************************************)
(* One run of analyzeSearchResults.                                        *)
(***************************************************************************)
S_acme == <<"a","c","m","e">>

S_http_akne == <<"h","t","t","p",":","/","/","a","k","n","e">>

U_acme == <<"h","t","t","p",":","/","/","a","c","m","e",".","o","n","i","o","n">>

U_shop == <<"h","t","t","p",":","/","/","s","h","o","p",".","o","n","i","o","n">>

U_googel == <<"h","t","t","p",":","/","/","g","o","o","g","e","l",".","o","n","i","o","n">>

T_market == <<"M","a","r","k","e","t">>

\* the keyword lists of the company profiles: the brand name alone, and the
\* brand name after a keyword that is two edits away from the url of the
\* brand without its ".onion" (high_similarity, 9/11 = 81.8)
ProfileKeywords == {<<S_acme>>, <<S_http_akne, S_acme>>}

\* a profile has a realLoginUrl or not and its domains or not; one more
\* profile has the keyword "google"
CompanyProfiles ==
    {[keywords |-> ks, realLoginUrl |-> f[1], hasDomains |-> f[2]] :
       ks \in ProfileKeywords, f \in {<<TRUE, TRUE>>, <<TRUE, FALSE>>, <<FALSE, FALSE>>}}
    \cup {[keywords |-> <<S_google>>, realLoginUrl |-> FALSE, hasDomains |-> TRUE]}

\* the options runFullScan passes (monitor.js, lines 123-128)
RunFullScanOptions ==
    [checkSimilarity |-> TRUE, downloadRealSite |-> TRUE,
     similarityThreshold |-> DefaultSimilarityThreshold]

\* the options of the callers: those of runFullScan, no structural check, and
\* a stricter threshold of 90 without a reference page
AnalysisOptions ==
    {RunFullScanOptions,
     [checkSimilarity |-> FALSE, downloadRealSite |-> TRUE,
      similarityThreshold |-> DefaultSimilarityThreshold],
     [checkSimilarity |-> TRUE, downloadRealSite |-> FALSE,
      similarityThreshold |-> 90]}

\* search results: the brand's name in the url, in the description, nowhere,
\* and a result without url
SR_acme == [url |-> U_acme, title |-> T_market, description |-> << >>]

SR_mention == [url |-> U_shop, title |-> T_market, description |-> T_acme]

SR_shop == [url |-> U_shop, title |-> T_market, description |-> << >>]

SR_nourl == [title |-> T_market, description |-> T_acme]

\* a result whose host name is the brand "google" with two letters swapped
SR_googel == [url |-> U_googel, title |-> T_market, description |-> << >>]

Candidates == {SR_acme, SR_mention, SR_shop, SR_nourl, SR_googel}

\* the login page of the company and pages that candidates serve
D_real == Document(T_acme_login, <<El_div, El_password, El_email>>, TRUE)

D_login == Document(T_acme, <<El_password, El_email>>, FALSE)

D_text == Document(T_market, <<El_div>>, FALSE)

Html(doc, keywords_found, credentials, clearnet_links) ==
    [kind |-> "html", doc |-> doc, keywords_found |-> keywords_found,
     credentials |-> credentials, clearnet_links |-> clearnet_links]

EmptyBody == [kind |-> "empty"]

RealSiteBodies == {EmptyBody, Html(D_real, TRUE, FALSE, "company")}

\* an empty body, a copy of the company's login page, a page with leaked
\* credentials and links, a login page
Pages ==
    {EmptyBody,
     Html(D_real, TRUE, FALSE, "company"),
     Html(D_text, FALSE, TRUE, "other"),
     Html(D_login, FALSE, FALSE, "none")}

HasUrl(searchResult) == "url" \in DOMAIN searchResult

AnalysisInit ==
    /\ profile \in CompanyProfiles
    /\ analysisOptions \in AnalysisOptions
    /\ searchResults \in UNION {[1..n -> Candidates] : n \in 0..MaxCandidates}
    /\ realSite = NoHtml
    /\ analysis = NewResults
    /\ idx = 0
    /\ current = << >>
    /\ apc = "realSite"
    /\ fetches = << >>
    /\ outcome = [i \in 1..Len(searchResults) |-> [state |-> "pending"]]
    /\ CallIdle
    /\ SearchIdle
    /\ ScanIdle
    /\ SessionIdle

Unchanged ==
    UNCHANGED <<profile, analysisOptions, searchResults, callVars, searchVars, scanVars, sessionVars>>

\* the for loop goes on with the next search result, or analyzeSearchResults
\* counts and sorts the findings and returns
LoopGoesOn(res) ==
    /\ idx' = idx + 1
    /\ current' = << >>
    /\ IF idx >= Len(searchResults)
       THEN analysis' = Finish(res) /\ apc' = "done"
       ELSE analysis' = res /\ apc' = "loop"

\* analyzeSearchResult returns: the finding is collected if it has indicators
FindingReturned(f) ==
    /\ outcome' = [outcome EXCEPT
                     ![idx] = [state |-> IF Returns(f) THEN "finding" ELSE "dropped",
                               finding |-> f]]
    /\ \E res \in {Collected(analysis, f)} : LoopGoesOn(res)

\* lines 47-50: no real site is asked for
NoRealSite ==
    /\ apc = "realSite"
    /\ ~(analysisOptions.downloadRealSite /\ profile.realLoginUrl)
    /\ LoopGoesOn(analysis)
    /\ UNCHANGED <<realSite, fetches, outcome>>
    /\ Unchanged

\* fetchRealSite resolves with the body of the real login page
RealSiteDownloaded(html) ==
    /\ apc = "realSite"
    /\ analysisOptions.downloadRealSite /\ profile.realLoginUrl
    /\ realSite' = html
    /\ LoopGoesOn(analysis)
    /\ UNCHANGED <<fetches, outcome>>
    /\ Unchanged

\* fetchRealSite catches the failure of the download and resolves with null
RealSiteFails ==
    /\ apc = "realSite"
    /\ analysisOptions.downloadRealSite /\ profile.realLoginUrl
    /\ realSite' = NoHtml
    /\ LoopGoesOn(analysis)
    /\ UNCHANGED <<fetches, outcome>>
    /\ Unchanged

\* analyzeSearchResult up to its return, the gate being closed, or up to
\* its call of fetchUrl
Analyze ==
    /\ apc = "loop"
    /\ HasUrl(searchResults[idx])
    /\ \E domainCheck \in {DomainCheck(searchResults[idx], profile)} :
         \E metadata \in {MetadataScoring(searchResults[idx], profile, domainCheck)} :
           IF shouldCrawl(domainCheck, realSite, analysisOptions)
           THEN /\ current' = metadata
                /\ fetches' = Append(fetches, idx)
                /\ apc' = "fetching"
                /\ UNCHANGED <<analysis, idx, outcome>>
           ELSE /\ \E f \in {Finalize(SkipCrawl(metadata))} : FindingReturned(f)
                /\ UNCHANGED fetches
    /\ UNCHANGED realSite
    /\ Unchanged

\* searchResult.url is undefined: checkBrandSimilarity throws a TypeError,
\* which the catch of lines 70-72 logs
AnalyzeThrows ==
    /\ apc = "loop"
    /\ ~HasUrl(searchResults[idx])
    /\ outcome' = [outcome EXCEPT ![idx] = [state |-> "thrown"]]
    /\ LoopGoesOn(analysis)
    /\ UNCHANGED <<realSite, fetches>>
    /\ Unchanged

\* fetchUrl resolves with the body of the page
PageFetched(page) ==
    /\ apc = "fetching"
    /\ \E crawled \in {PostFetch(current, page, profile, realSite, analysisOptions)} :
         \E f \in {Finalize(crawled)} : FindingReturned(f)
    /\ UNCHANGED <<realSite, fetches>>
    /\ Unchanged

\* fetchUrl rejects
PageFetchFails(e) ==
    /\ apc = "fetching"
    /\ \E f \in {Finalize(CrawlFailed(current, e))} : FindingReturned(f)
    /\ UNCHANGED <<realSite, fetches>>
    /\ Unchanged

AnalysisNext ==
    \/ NoRealSite
    \/ \E html \in RealSiteBodies : RealSiteDownloaded(html)
    \/ RealSiteFails
    \/ Analyze
    \/ AnalyzeThrows
    \/ \E page \in Pages : PageFetched(page)
    \/ \E e \in FetchErrors : PageFetchFails(e)

AnalysisSpec == AnalysisInit /\ [][AnalysisNext]_vars

(***************************************************************************)
(* monitor.js: one run of runFullScan, brand monitoring and what follows.  *)
(***************************************************************************)
\* features = ['all'] expanded, or a caller's list without brand monitoring
AllFeatures ==
    {"brandMonitoring", "ransomwareMonitoring", "telegramMonitoring",
     "twitterMonitoring", "forumMonitoring"}

FeatureLists == {AllFeatures, {"ransomwareMonitoring"}}

HasKeywords(companyProfile) == "keywords" \in DOMAIN companyProfile

\* the company profiles of a scan: without keywords, with an empty keyword
\* list, with one keyword and with two
ScanProfiles ==
    {[realLoginUrl |-> TRUE, hasDomains |-> TRUE]}
    \cup {[keywords |-> ks, realLoginUrl |-> f, hasDomains |-> f] :
            ks \in {<< >>} \cup ProfileKeywords, f \in BOOLEAN}

\* what multiEngineSearch returns for one keyword: results with a url each,
\* no url twice
SearchOutputs ==
    {rs \in UNION {[1..n -> {SR_acme, SR_mention, SR_shop}] : n \in 0..MaxCandidates} :
       \A i, j \in DOMAIN rs : rs[i].url = rs[j].url => i = j}

\* the mutant: every search result is kept
UniqueResultsKeepsAll(results, seen) == results

\* lines 97-105: the first search result of each url, in order
RECURSIVE UniqueResults(_, _)
UniqueResults(results, seen) ==
    IF results = << >> THEN << >>
    ELSE IF Head(results).url \in seen
         THEN UniqueResults(Tail(results), seen)
         ELSE <<Head(results)>> \o UniqueResults(Tail(results), seen \cup {Head(results).url})

ScanInit ==
    /\ profile \in ScanProfiles
    /\ enabledFeatures \in FeatureLists
    /\ spc = "start"
    /\ kw = 1
    /\ allSearchResults = << >>
    /\ queries = << >>
    /\ analysisOptions = [checkSimilarity |-> FALSE, downloadRealSite |-> FALSE,
                          similarityThreshold |-> 0]
    /\ searchResults = << >>
    /\ realSite = NoHtml
    /\ analysis = NewResults
    /\ idx = 0
    /\ current = << >>
    /\ apc = "idle"
    /\ fetches = << >>
    /\ outcome = << >>
    /\ CallIdle
    /\ SearchIdle
    /\ SessionIdle

ScanUnchanged == UNCHANGED <<profile, enabledFeatures, callVars, searchVars, sessionVars>>

AnalysisUntouched ==
    UNCHANGED <<analysisOptions, searchResults, realSite, analysis, idx, current, apc,
                fetches, outcome>>

\* line 72: brand monitoring is not among the enabled features
BrandMonitoringSkipped ==
    /\ spc = "start"
    /\ "brandMonitoring" \notin enabledFeatures
    /\ spc' = "features"
    /\ UNCHANGED <<kw, allSearchResults, queries>>
    /\ AnalysisUntouched
    /\ ScanUnchanged

\* line 79: companyProfile.keywords is undefined and not iterable; the
\* TypeError is thrown outside every try block and runFullScan rejects
KeywordsNotIterable ==
    /\ spc = "start"
    /\ "brandMonitoring" \in enabledFeatures
    /\ ~HasKeywords(profile)
    /\ spc' = "thrown"
    /\ UNCHANGED <<kw, allSearchResults, queries>>
    /\ AnalysisUntouched
    /\ ScanUnchanged

\* lines 79-92: multiEngineSearch for the next keyword returns
KeywordSearched(results) ==
    /\ spc = "start"
    /\ "brandMonitoring" \in enabledFeatures
    /\ HasKeywords(profile)
    /\ kw <= Len(profile.keywords)
    /\ queries' = Append(queries, profile.keywords[kw])
    /\ allSearchResults' = allSearchResults \o results
    /\ kw' = kw + 1
    /\ UNCHANGED spc
    /\ AnalysisUntouched
    /\ ScanUnchanged

\* lines 89-91: multiEngineSearch throws and the error is logged
KeywordSearchThrows ==
    /\ spc = "start"
    /\ "brandMonitoring" \in enabledFeatures
    /\ HasKeywords(profile)
    /\ kw <= Len(profile.keywords)
    /\ queries' = Append(queries, profile.keywords[kw])
    /\ kw' = kw + 1
    /\ UNCHANGED <<spc, allSearchResults>>
    /\ AnalysisUntouched
    /\ ScanUnchanged

\* lines 95-129: the duplicates are removed and analyzeSearchResults is
\* called with the unique results
BrandMonitoringStarts ==
    /\ spc = "start"
    /\ "brandMonitoring" \in enabledFeatures
    /\ HasKeywords(profile)
    /\ kw > Len(profile.keywords)
    /\ \E uniqueResults \in {UniqueResults(allSearchResults, {})} :
         /\ searchResults' = uniqueResults
         /\ outcome' = [i \in 1..Len(uniqueResults) |-> [state |-> "pending"]]
    /\ analysisOptions' = RunFullScanOptions
    /\ apc' = "realSite"
    /\ spc' = "brandMonitoring"
    /\ UNCHANGED <<realSite, analysis, idx, current, fetches>>
    /\ UNCHANGED <<kw, allSearchResults, queries>>
    /\ ScanUnchanged

\* lines 131-132: analyzeSearchResults has returned its report
BrandMonitoringDone ==
    /\ spc = "brandMonitoring"
    /\ apc = "done"
    /\ spc' = "features"
    /\ UNCHANGED <<kw, allSearchResults, queries>>
    /\ AnalysisUntouched
    /\ ScanUnchanged

\* lines 140-240: the other enabled features run, the reports are written
\* and runFullScan returns
OtherFeaturesDone ==
    /\ spc = "features"
    /\ spc' = "returned"
    /\ UNCHANGED <<kw, allSearchResults, queries>>
    /\ AnalysisUntouched
    /\ ScanUnchanged

ScanNext ==
    \/ BrandMonitoringSkipped
    \/ KeywordsNotIterable
    \/ \E results \in SearchOutputs : KeywordSearched(results)
    \/ KeywordSearchThrows
    \/ BrandMonitoringStarts
    \/ NoRealSite
    \/ \E html \in RealSiteBodies : RealSiteDownloaded(html)
    \/ RealSiteFails
    \/ Analyze
    \/ \E page \in Pages : PageFetched(page)
    \/ \E e \in FetchErrors : PageFetchFails(e)
    \/ BrandMonitoringDone
    \/ OtherFeaturesDone

ScanSpec == ScanInit /\ [][ScanNext]_vars

(***************************************************************************)
(* session-manager/server.js: a session, its Redis key and the cleanup     *)
(* timer. Time is counted in seconds.                                      *)
(***************************************************************************)
\* the default of process.env.SESSION_TIMEOUT, the life of the Redis keys
SESSION_TIMEOUT == 7200

\* setInterval(cleanupExpiredSessions, 5 * 60 * 1000), in seconds
CleanupInterval == 300

\* cleanupExpiredSessions stops a session whose key has ttl < 60
LowTtl == 60

\* the longest time the model lets pass in one step
Granularity == 30

\* the next instant the model stops at: after Granularity seconds, or sooner
\* when the cleanup timer fires or the key expires before that
TimeStep ==
    Min2(Min2(Granularity, untilCleanup),
         IF session.key THEN session.ttl ELSE Granularity)

SessionInit ==
    /\ session = NoSession
    /\ untilCleanup = CleanupInterval
    /\ CallIdle
    /\ SearchIdle
    /\ AnalysisIdle
    /\ ScanIdle

SessionUnchanged == UNCHANGED <<callVars, searchVars, analysisVars, scanVars>>

\* POST /api/session/create: the container is started and session:<id> is
\* stored with SESSION_TIMEOUT seconds to live
CreateSession ==
    /\ session.container = "none"
    /\ session' = [container |-> "running", key |-> TRUE, ttl |-> SESSION_TIMEOUT]
    /\ UNCHANGED untilCleanup
    /\ SessionUnchanged

\* time passes; Redis removes a key whose time to live has run out
TimePasses ==
    /\ untilCleanup > 0
    /\ untilCleanup' = untilCleanup - TimeStep
    /\ session' = IF session.key
                  THEN [session EXCEPT !.ttl = @ - TimeStep, !.key = (session.ttl - TimeStep > 0)]
                  ELSE session
    /\ SessionUnchanged

\* cleanupExpiredSessions for the keys redis.keys('session:*') lists: a key
\* with ttl < 60 has its container stopped and is deleted
cleanupExpiredSessions(s) ==
    IF s.key /\ s.ttl < LowTtl
    THEN [s EXCEPT !.container = "stopped", !.key = FALSE, !.ttl = 0]
    ELSE s

\* the timer fires
Cleanup ==
    /\ untilCleanup = 0
    /\ session' = cleanupExpiredSessions(session)
    /\ untilCleanup' = CleanupInterval
    /\ SessionUnchanged

SessionNext ==
    \/ CreateSession
    \/ TimePasses
    \/ Cleanup

\* time goes on and the timer keeps firing
SessionSpec ==
    SessionInit /\ [][SessionNext]_vars /\ WF_vars(TimePasses) /\ WF_vars(Cleanup)

(***************************************************************************)
(* Properties of one run of multiEngineSearch.                             *)
(***************************************************************************)
Returned == mpc = "returned"

Failed(i) == task[i].status = "fulfilled" /\ task[i].value.error # "none"

Succeeded(i) == task[i].status = "fulfilled" /\ task[i].value.error = "none"

\* the positions of parsedOrder at which the parse loop reached url
ReachedAt(url) == {k \in DOMAIN parsedOrder : url \in reached[parsedOrder[k]]}

MinOf(S) == CHOOSE x \in S : \A y \in S : x <= y

\* the results in the order they were recorded: task by task in parse order
RECURSIVE RecordedFrom(_)
RecordedFrom(k) ==
    IF k > Len(parsedOrder) THEN << >>
    ELSE task[parsedOrder[k]].value.results \o RecordedFrom(k + 1)

\* C1: at every moment of a run, under every interleaving of the engine
\* tasks, no two recorded results have the same normalized url, and no two
\* entries of the returned results list have the same url.
C1_NoDuplicateUrl ==
    /\ \A p, q \in DOMAIN RecordedFrom(1) :
         p # q => RecordedFrom(1)[p].url # RecordedFrom(1)[q].url
    /\ Returned =>
         \A p, q \in DOMAIN out.results :
           p # q => out.results[p].url # out.results[q].url

\* two tasks were answered with the same url and the run returned
C1_Witness ==
    /\ Returned
    /\ \E i, j \in DOMAIN task :
         i # j /\ reached[i] \cap reached[j] # {} /\ Len(out.results) > 0

C2_State ==
    /\ mpc = "awaiting" => ENABLED SearchNext
    /\ Returned =>
         /\ \A i \in DOMAIN task : Succeeded(i) =>
              \A k \in DOMAIN task[i].value.results :
                \E p \in DOMAIN out.results : out.results[p] = task[i].value.results[k]
         /\ out.total_results = Len(out.results)
         /\ out.engines_used = enginesToUse

C2_Step ==
    \A i \in DOMAIN task :
      (task[i].status = "pending" /\ task'[i].status = "fulfilled"
                                  /\ task'[i].value.error # "none")
        => /\ \A j \in DOMAIN task : j # i => task'[j] = task[j]
           /\ seenUrls' = seenUrls
           /\ mpc' = mpc

C3_FailedEngineIsInErrors ==
    Returned =>
      \A i \in DOMAIN task : Failed(i) =>
        \E e \in DOMAIN out.errors : out.errors[e].engine = enginesToUse[i]

TaskOf(p) == CHOOSE i \in DOMAIN task : out.results[p] \in Range(task[i].value.results)

PlaceIn(i, r) == CHOOSE k \in DOMAIN task[i].value.results : task[i].value.results[k] = r

\* C5 as claimed: the returned list is in arrival order, the order in which
\* the results were recorded.
C5_ArrivalOrder == Returned => out.results = RecordedFrom(1)

\* C5 as amended: the returned list holds the recorded results grouped by
\* engine in the order of the engine list, and within one engine in the
\* order in which that engine's results were recorded.
C5_EngineListOrder ==
    Returned =>
      /\ Len(out.results) = Len(RecordedFrom(1))
      /\ Range(out.results) = Range(RecordedFrom(1))
      /\ \A p, q \in DOMAIN out.results : p < q =>
           \/ TaskOf(p) < TaskOf(q)
           \/ /\ TaskOf(p) = TaskOf(q)
              /\ PlaceIn(TaskOf(p), out.results[p]) < PlaceIn(TaskOf(q), out.results[q])

\* an engine later in the list recorded its results before an earlier one
C5_Witness ==
    /\ Returned
    /\ \E k, l \in DOMAIN parsedOrder :
         /\ k < l /\ parsedOrder[k] > parsedOrder[l]
         /\ task[parsedOrder[k]].value.results # << >>
         /\ task[parsedOrder[l]].value.results # << >>

(***************************************************************************)
(* Properties of the string functions.                                     *)
(***************************************************************************)
ReturnedFrom(f) == pc = "return" /\ fn = f

\* the tail of a link after its http:// or https://, << >> when it has neither
AfterScheme(u) ==
    IF Len(u) >= 8 /\ SubSeq(u, 1, 8) = HttpsScheme THEN <<SubSeq(u, 9, Len(u))>>
    ELSE IF Len(u) >= 7 /\ SubSeq(u, 1, 7) = HttpScheme THEN <<SubSeq(u, 8, Len(u))>>
    ELSE << >>

\* u and v are the same link written with http:// or https://
DifferOnlyInScheme(u, v) ==
    AfterScheme(u) # << >> /\ AfterScheme(u) = AfterScheme(v)

DropTrailingSlash(u) ==
    IF Len(u) > 0 /\ u[Len(u)] = "/" THEN SubSeq(u, 1, Len(u) - 1) ELSE u

\* u and v differ at most in scheme, letter case and a trailing slash
DifferOnlyInSchemeCaseSlash(u, v) ==
    /\ AfterScheme(u) # << >> /\ AfterScheme(v) # << >>
    /\ DropTrailingSlash(ToLowerCase(AfterScheme(u)[1]))
         = DropTrailingSlash(ToLowerCase(AfterScheme(v)[1]))

\* C6 as claimed: links that differ only in scheme, letter case or a
\* trailing slash have the same normalized form.
C6_SchemeCaseSlash ==
    ReturnedFrom("normalizeOnionUrl") =>
      \A v \in Links :
        DifferOnlyInSchemeCaseSlash(args[1], v) => normalizeOnionUrl(v) = ret

\* C6 as amended: links that differ only in the scheme, http:// or https://,
\* have the same normalized form.
C6_SchemeOnly ==
    ReturnedFrom("normalizeOnionUrl") =>
      \A v \in Links : DifferOnlyInScheme(args[1], v) => normalizeOnionUrl(v) = ret

\* https://a.onion was normalized to http://a.onion
C6_Witness ==
    /\ ReturnedFrom("normalizeOnionUrl")
    /\ args[1] = HttpsScheme \o U_a
    /\ ret = HttpScheme \o U_a

\* the forms the detector compares: lower case, the first ".onion" removed
\* from the candidate
NormalDomain(D) == ReplaceFirst(ToLowerCase(D), DotOnion, << >>)

RuleDirect(d, k) ==
    \E i \in 1..(Len(d) - Len(k) + 1) : SubSeq(d, i, i + Len(k) - 1) = k

RuleOmission(d, k) ==
    \E i \in 1..Len(k) : d = SubSeq(k, 1, i - 1) \o SubSeq(k, i + 1, Len(k))

RuleAddition(d, k) ==
    \E i \in 0..Len(k) : \E c \in Range(LowerLetters) :
      d = SubSeq(k, 1, i) \o <<c>> \o SubSeq(k, i + 1, Len(k))

RuleSwap(d, k) ==
    \E i \in 1..(Len(k) - 1) : d = [k EXCEPT ![i] = k[i + 1], ![i + 1] = k[i]]

RuleHomoglyph(d, k) ==
    \E i \in 1..Len(k) : \E h \in Range(HOMOGLYPHS(k[i])) :
      RuleDirect(d, [k EXCEPT ![i] = h])

EditSimilarity(d, k) ==
    [num |-> (Max2(Len(d), Len(k)) - levenshteinDistance(d, k)) * 100,
     den |-> Max2(Len(d), Len(k))]

RuleHighSimilarity(d, k) == FracGt(EditSimilarity(d, k), Whole(80))

\* the match of the first satisfied rule, in the fixed order
FirstRule(d, k) ==
    CASE RuleDirect(d, k) -> [type |-> "direct_match", confidence |-> Whole(100)]
      [] ~RuleDirect(d, k) /\ RuleOmission(d, k) ->
           [type |-> "character_omission", confidence |-> Whole(95)]
      [] ~RuleDirect(d, k) /\ ~RuleOmission(d, k) /\ RuleAddition(d, k) ->
           [type |-> "character_addition", confidence |-> Whole(90)]
      [] ~RuleDirect(d, k) /\ ~RuleOmission(d, k) /\ ~RuleAddition(d, k)
           /\ RuleSwap(d, k) ->
           [type |-> "character_swap", confidence |-> Whole(95)]
      [] ~RuleDirect(d, k) /\ ~RuleOmission(d, k) /\ ~RuleAddition(d, k)
           /\ ~RuleSwap(d, k) /\ RuleHomoglyph(d, k) ->
           [type |-> "homoglyph", confidence |-> Whole(85)]
      [] ~RuleDirect(d, k) /\ ~RuleOmission(d, k) /\ ~RuleAddition(d, k)
           /\ ~RuleSwap(d, k) /\ ~RuleHomoglyph(d, k) /\ RuleHighSimilarity(d, k) ->
           [type |-> "high_similarity", confidence |-> EditSimilarity(d, k)]
      [] OTHER -> [type |-> "none", confidence |-> Whole(0)]

\* C7: detection of a candidate against one keyword returns the match of the
\* first satisfied rule in the order direct (100), character_omission (95),
\* character_addition (90), character_swap (95), homoglyph (85),
\* high_similarity (the edit-distance similarity, above 80), and no match
\* when no rule is satisfied; "googel" against "google" is character_swap, 95.
C7_FirstRuleWins ==
    (ReturnedFrom("checkBrandSimilarity") /\ Len(args[2]) = 1) =>
      LET rule == FirstRule(NormalDomain(args[1]), ToLowerCase(args[2][1]))
      IN  /\ IF rule.type = "none" THEN ~ret.match
             ELSE /\ ret.match
                  /\ ret.type = rule.type
                  /\ FracEq(ret.confidence, rule.confidence)
          /\ args = <<S_googel, <<S_google>>>> =>
               ret.match /\ ret.type = "character_swap" /\ ret.confidence = Whole(95)

\* a candidate that satisfies the homoglyph rule and also a later rule of
\* higher confidence (similarity 600/7 > 85) was returned as homoglyph
C7_Witness ==
    /\ ReturnedFrom("checkBrandSimilarity")
    /\ args = <<S_g0ogles, <<S_googles>>>>
    /\ ret.match /\ ret.type = "homoglyph"
    /\ RuleHighSimilarity(S_g0ogles, S_googles)
    /\ FracGt(EditSimilarity(S_g0ogles, S_googles), ret.confidence)

\* C8: detection of "g00gle" against "google" returns a match of type
\* homoglyph or high_similarity with a confidence of at least 80.
C8_G00gleIsDetected ==
    /\ (ReturnedFrom("detectTyposquatting") /\ args = <<S_g00gle, S_google>>) =>
         /\ ret.isTyposquatting
         /\ ret.type \in {"homoglyph", "high_similarity"}
         /\ FracGe(ret.confidence, Whole(80))
    /\ (ReturnedFrom("checkBrandSimilarity") /\ args = <<S_g00gle, <<S_google>>>>) =>
         /\ ret.match
         /\ ret.type \in {"homoglyph", "high_similarity"}
         /\ FracGe(ret.confidence, Whole(80))

\* the keywords of the list that detection matches, by position
MatchingKeywords(D, ks) ==
    {i \in DOMAIN ks : checkBrandSimilarity(D, <<ks[i]>>).match}

C10_SymmetricAndZero ==
    ReturnedFrom("levenshteinDistance") =>
      /\ ret = levenshteinDistance(args[2], args[1])
      /\ levenshteinDistance(args[1], args[1]) = 0
      /\ args[1] = args[2] => ret = 0

\* a distance between strings of different lengths was computed
C10_Witness ==
    /\ ReturnedFrom("levenshteinDistance")
    /\ Len(args[1]) < Len(args[2])
    /\ ret = 2

(***************************************************************************)
(* Properties of compareHtmlStructure.                                     *)
(***************************************************************************)
HtmlReturned == fn = "compareHtmlStructure" /\ pc = "return"

\* the document has exactly the inputs {password, pwd} and {email, user},
\* in either order, and no other element
LoginInputsOnly(doc) ==
    doc.elements \in {<<El_password, El_email>>, <<El_email, El_password>>}

C11_Case ==
    /\ HtmlReturned
    /\ LoginInputsOnly(args[1]) /\ LoginInputsOnly(args[2])
    /\ Trim(args[1].title) = Trim(args[2].title)

\* C11 as stated: two documents that each have exactly the inputs
\* {password, pwd} and {email, user}, no id and no class, and the same title
\* compare with overall = 100.
C11_OverallIs100 == C11_Case => ret.overall = Whole(100)

\* C11 amended: for two such documents the type and name sets agree and the
\* id and class sets are empty, which count as 0: inputFields is 70, cssClasses
\* and ids are 0, title is 100 and overall is round(0.7*40 + 0 + 0 + 10) = 38.
C11_OverallIs38 ==
    C11_Case =>
        /\ ret.overall = Whole(38)
        /\ ret.inputFields = Whole(70)
        /\ ret.cssClasses = Whole(0)
        /\ ret.ids = Whole(0)
        /\ ret.title = Whole(100)

C11_Witness == C11_Case /\ args[1].elements # args[2].elements /\ ret.overall = Whole(38)

Scores == {Whole(n) : n \in 0..100}

\* the arrays of the two documents that jaccardSimilarity is called with
JaccardArguments(d1, d2) ==
    LET f1 == extractStructuralFeatures(d1)
        f2 == extractStructuralFeatures(d2)
    IN  {<<f1.cssClasses, f2.cssClasses>>, <<f1.ids, f2.ids>>,
         <<FieldOf(f1.inputFields, "type"), FieldOf(f2.inputFields, "type")>>}

\* C12: every field of the score returned by compareHtmlStructure is an
\* integer from 0 to 100 and never NaN, whatever sets are empty; the Jaccard
\* similarity of two empty sets is 0 and that of a non-empty set with itself 1.
C12_ScoresInRange ==
    HtmlReturned =>
        /\ \A f \in {"overall", "inputFields", "cssClasses", "ids", "title"} :
               ~IsNaN(ret[f]) /\ ret[f] \in Scores
        /\ \A p \in JaccardArguments(args[1], args[2]) :
               /\ ~IsNaN(jaccardSimilarity(p[1], p[2]))
               /\ (p[1] = << >> /\ p[2] = << >>) =>
                      jaccardSimilarity(p[1], p[2]) = Whole(0)
               /\ p[1] # << >> => FracEq(jaccardSimilarity(p[1], p[1]), Whole(1))

\* two documents with inputs and with neither a class nor an id
C12_Witness ==
    /\ HtmlReturned
    /\ CssClasses(args[1]) = << >> /\ CssClasses(args[2]) = << >>
    /\ Ids(args[1]) = << >> /\ Ids(args[2]) = << >>
    /\ InputFields(args[1]) # << >> /\ InputFields(args[2]) # << >>
    /\ ret.cssClasses = Whole(0) /\ ret.ids = Whole(0)
    /\ FracGt(ret.inputFields, Whole(0))

(***************************************************************************)
(* Properties of one run of analyzeSearchResults.                          *)
(***************************************************************************)
Done == apc = "done"

Results == 1..Len(searchResults)

\* the page of search result i has been requested
Fetched(i) == \E k \in 1..Len(fetches) : fetches[k] = i

\* analyzeSearchResult has returned a finding or null for search result i
Analyzed(i) == outcome[i].state \in {"finding", "dropped"}

\* the gate of search result i has been decided
Decided(i) == Fetched(i) \/ Analyzed(i)

\* the urls and keywords of the run's inputs
CandidateUrls == {c.url : c \in {x \in Candidates : HasUrl(x)}}

CandidateKeywords == UNION {Range(p.keywords) : p \in CompanyProfiles}

\* what the typosquatting detector yields for each url and single keyword
Detections ==
    {[url |-> u, keyword |-> k, match |-> checkBrandSimilarity(u, <<k>>)] :
       u \in CandidateUrls, k \in CandidateKeywords}

Detection(u, k) == (CHOOSE d \in Detections : d.url = u /\ d.keyword = k).match

\* the keywords of the profile that the url of search result i matches
Matching(i) ==
    {k \in DOMAIN profile.keywords :
       Detection(searchResults[i].url, profile.keywords[k]).match}

ConfidenceOf(i, k) == Detection(searchResults[i].url, profile.keywords[k]).confidence

Threshold == Whole(analysisOptions.similarityThreshold)

\* the best domain match of search result i reaches the threshold
BestMatchReaches(i) == \E k \in Matching(i) : FracGe(ConfidenceOf(i, k), Threshold)

\* the match of the first matching keyword reaches the threshold
FirstMatchReaches(i) ==
    Matching(i) # {} /\ FracGe(ConfidenceOf(i, MinOf(Matching(i))), Threshold)

\* the structural check is enabled and the real site's html is at hand
ReferenceAvailable == analysisOptions.checkSimilarity /\ Truthy(realSite)

FromRunFullScan ==
    /\ analysisOptions = RunFullScanOptions
    /\ \A i \in Results : HasUrl(searchResults[i])
    /\ \A i, j \in Results : searchResults[i].url = searchResults[j].url => i = j

\* C14: in a scan of runFullScan with its brand-monitoring options a candidate
\* is fetched only when its domain similarity exceeds 70; a candidate with
\* lower or no domain similarity is never fetched.
C14_OnlyHighSimilarityIsCrawled ==
    FromRunFullScan =>
        \A i \in Results :
            Fetched(i) =>
                \E k \in Matching(i) :
                    FracGt(ConfidenceOf(i, k), Whole(DefaultSimilarityThreshold))

\* the finding analyzeSearchResult made of search result i
FindingOf(i) == outcome[i].finding

IndicatorTypes(f) == {f.indicators[k].type : k \in 1..Len(f.indicators)}

\* the weight the specification gives an indicator
Weight(indicator) ==
    CASE indicator.type = "domain_similarity" -> FracMul(indicator.confidence, Tenths(1))
      [] indicator.type = "keyword_in_metadata" -> Whole(1)
      [] indicator.type = "keyword_match" -> Whole(2)
      [] indicator.type = "login_form_detected" -> Whole(3)
      [] indicator.type = "html_similarity" -> FracMul(indicator.similarity_score, Tenths(1))
      [] indicator.type = "credentials_found" -> Whole(5)
      [] indicator.type = "company_domain_mentioned" -> Whole(2)

RECURSIVE SumOfWeights(_)
SumOfWeights(indicators) ==
    IF indicators = << >> THEN Whole(0)
    ELSE FracAdd(Weight(Head(indicators)), SumOfWeights(Tail(indicators)))

\* a keyword of the profile is in the title or the description of result i
InMetadata(i) ==
    \E k \in DOMAIN profile.keywords :
        Includes(ToLowerCase(searchResults[i].title \o <<" ">> \o searchResults[i].description),
                 ToLowerCase(profile.keywords[k]))

\* the tier the specification gives a score
TierOf(score) ==
    IF FracGe(score, Whole(9)) THEN "critical"
    ELSE IF FracGe(score, Whole(7)) THEN "high"
    ELSE IF FracGe(score, Whole(4)) THEN "medium"
    ELSE "low"

\* C15: a candidate whose gate is closed is not fetched: its finding has
\* was_crawled = false and a skip reason, its indicators are those of metadata
\* scoring (domain_similarity if a keyword matches the url, keyword_in_metadata
\* if a keyword is in the title or description) and its score is their sum.
C15_SkippedKeepsMetadata ==
    \A i \in Results :
        (Analyzed(i) /\ ~Fetched(i)) =>
            /\ FindingOf(i).was_crawled = "false"
            /\ FindingOf(i).crawl_reason # "undefined"
            /\ FindingOf(i).crawl_error = "undefined"
            /\ IndicatorTypes(FindingOf(i)) \subseteq {"domain_similarity", "keyword_in_metadata"}
            /\ ("domain_similarity" \in IndicatorTypes(FindingOf(i))) <=> (Matching(i) # {})
            /\ ("keyword_in_metadata" \in IndicatorTypes(FindingOf(i))) <=> InMetadata(i)
            /\ Len(FindingOf(i).indicators) <= 2
            /\ FracEq(FindingOf(i).severity_score, SumOfWeights(FindingOf(i).indicators))

\* two skipped candidates, one with a domain match below the threshold and
\* one with a keyword in its description
C15_Witness ==
    /\ Done
    /\ \E i \in Results :
         /\ Analyzed(i) /\ ~Fetched(i)
         /\ IndicatorTypes(FindingOf(i)) = {"domain_similarity"}
         /\ FracGt(FindingOf(i).severity_score, Whole(8))
    /\ \E i \in Results :
         /\ Analyzed(i) /\ ~Fetched(i)
         /\ IndicatorTypes(FindingOf(i)) = {"keyword_in_metadata"}

\* the step in which the fetch of the current candidate's page fails
FetchFailureStep ==
    /\ apc = "fetching"
    /\ outcome'[idx].state # "pending"
    /\ outcome'[idx].finding.crawl_error \in FetchErrors

C16_Step ==
    FetchFailureStep =>
        /\ outcome'[idx].finding.was_crawled = "false"
        /\ outcome'[idx].finding.indicators = current.indicators
        /\ outcome'[idx].finding.severity_score = current.severity_score
        /\ outcome'[idx].finding.severity = TierOf(current.severity_score)
        /\ outcome'[idx].state = IF Len(current.indicators) > 0 THEN "finding" ELSE "dropped"
        /\ Len(analysis'.findings) =
               Len(analysis.findings) + (IF Len(current.indicators) > 0 THEN 1 ELSE 0)
        /\ idx' = idx + 1
        /\ apc' \in {"loop", "done"}

\* C16: when the fetch of a candidate's page fails, nothing is re-thrown: the
\* finding gets was_crawled = false and the failure as crawl_error, keeps the
\* indicators and the score it had, gets its tier and is emitted if it has
\* indicators, and the loop goes on.
C16_FetchFailureIsRecorded == [][C16_Step]_vars

\* a finding with indicators whose fetch failed is in the returned list, and
\* a candidate without indicators whose fetch failed was dropped
C16_Witness ==
    /\ Done
    /\ \E k \in 1..Len(analysis.findings) :
         /\ analysis.findings[k].crawl_error \in FetchErrors
         /\ analysis.findings[k].was_crawled = "false"
         /\ Len(analysis.findings[k].indicators) > 0
    /\ \E i \in Results :
         outcome[i].state = "dropped" /\ FindingOf(i).crawl_error \in FetchErrors

\* the analysis of search result i raised an exception
Raised(i) ==
    \/ outcome[i].state = "thrown"
    \/ Analyzed(i) /\ FindingOf(i).crawl_error # "undefined"

\* C17: an exception in the analysis of one candidate does not abort
\* analyzeSearchResults, every other candidate is analyzed, and the failure is
\* on the candidate's finding as was_crawled = false with a crawl_error.
C17_ExceptionsAreRecorded ==
    Done =>
        \A i \in Results :
            /\ outcome[i].state # "pending"
            /\ Raised(i) =>
                   /\ Analyzed(i)
                   /\ FindingOf(i).was_crawled = "false"
                   /\ FindingOf(i).crawl_error # "undefined"

Rank(severity) ==
    CASE severity = "low" -> 0
      [] severity = "medium" -> 1
      [] severity = "high" -> 2
      [] severity = "critical" -> 3

\* the finding has exactly a domain_similarity indicator of confidence 100
\* and a login_form_detected indicator
DirectMatchWithLoginForm(f) ==
    /\ Len(f.indicators) = 2
    /\ f.indicators[1].type = "domain_similarity"
    /\ f.indicators[1].confidence = Whole(100)
    /\ f.indicators[2].type = "login_form_detected"

\* C18: the tier of every finding is critical from score 9, high from 7,
\* medium from 4 and low below; it never decreases when the score grows; a
\* finding of domain_similarity 100 and login_form_detected has score 13 and
\* is critical.
C18_TierFollowsScore ==
    /\ \A i \in Results :
         Analyzed(i) =>
             /\ FindingOf(i).severity = TierOf(FindingOf(i).severity_score)
             /\ DirectMatchWithLoginForm(FindingOf(i)) =>
                    /\ FindingOf(i).severity_score = Whole(13)
                    /\ FindingOf(i).severity = "critical"
    /\ \A i, j \in Results :
         (Analyzed(i) /\ Analyzed(j)
            /\ FracGe(FindingOf(j).severity_score, FindingOf(i).severity_score)) =>
             Rank(FindingOf(j).severity) >= Rank(FindingOf(i).severity)

\* the example of the claim, next to a finding of score 4, which is medium
C18_Witness ==
    /\ Done
    /\ \E i \in Results :
         /\ Analyzed(i) /\ DirectMatchWithLoginForm(FindingOf(i))
         /\ FindingOf(i).severity = "critical"
    /\ \E i \in Results :
         /\ Analyzed(i) /\ FindingOf(i).severity_score = Whole(4)
         /\ FindingOf(i).severity = "medium"

\* the search results that gave a finding
Emitted == {i \in Results : outcome[i].state = "finding"}

\* C19: every finding of the list has an indicator; a candidate whose final
\* indicator list is empty gives no finding and is not counted.
C19_FindingsHaveIndicators ==
    /\ \A k \in 1..Len(analysis.findings) : Len(analysis.findings[k].indicators) > 0
    /\ \A i \in Results :
         Analyzed(i) => (i \in Emitted <=> Len(FindingOf(i).indicators) > 0)
    /\ Len(analysis.findings) = Cardinality(Emitted)
    /\ analysis.severityCounts.critical + analysis.severityCounts.high
         + analysis.severityCounts.medium + analysis.severityCounts.low
           = Cardinality(Emitted)
    /\ Done => analysis.totalFindings = Cardinality(Emitted)

\* a fetched candidate without indicators is dropped next to one that is kept
C19_Witness ==
    /\ Done
    /\ \E i \in Results :
         Fetched(i) /\ outcome[i].state = "dropped" /\ Len(FindingOf(i).indicators) = 0
    /\ Cardinality(Emitted) = 1 /\ analysis.totalFindings = 1

\* the findings in the order they were produced
RECURSIVE ProducedFrom(_)
ProducedFrom(i) ==
    IF i > Len(searchResults) THEN << >>
    ELSE (IF outcome[i].state = "finding" THEN <<FindingOf(i)>> ELSE << >>)
           \o ProducedFrom(i + 1)

Produced == ProducedFrom(1)

\* the findings of a list that have the tier, in the order of the list
OfTier(list, tier) ==
    LET HasTier(f) == f.severity = tier
    IN  SelectSeq(list, HasTier)

\* C20: the returned list has the critical findings first, then high, medium
\* and low, each tier in the order its findings were produced, and holds the
\* produced findings unchanged.
C20_SortedByTierStable ==
    Done =>
        analysis.findings =
            OfTier(Produced, "critical") \o OfTier(Produced, "high")
              \o OfTier(Produced, "medium") \o OfTier(Produced, "low")

\* two different findings of one tier are returned in the order they were
\* produced
C20_Witness ==
    /\ Done
    /\ Len(analysis.findings) = 2
    /\ analysis.findings[1].severity = analysis.findings[2].severity
    /\ analysis.findings[1] # analysis.findings[2]
    /\ analysis.findings = Produced

\* the sort moved a finding of a higher tier before one produced earlier
SortMovedAFinding ==
    /\ Done
    /\ Len(analysis.findings) = 2
    /\ analysis.findings # Produced
    /\ Rank(analysis.findings[1].severity) > Rank(analysis.findings[2].severity)

\* C25: every finding of the list has was_crawled set: true when the gate
\* opened and the page was fetched and analysed, false when the gate was
\* closed or the fetch failed; none has it unset, whatever fetchUrl returned.
C25_WasCrawledIsBoolean ==
    \A i \in Emitted :
        /\ FindingOf(i).was_crawled \in {"true", "false"}
        /\ FindingOf(i).was_crawled = "true" <=>
               (Fetched(i) /\ FindingOf(i).crawl_error = "undefined")

\* the analysis of the fetched page of search result i stopped midway
FailedMidway(i) ==
    /\ Analyzed(i)
    /\ FindingOf(i).crawl_error = "Cannot read properties of undefined (reading 'some')"

\* C26: the severity_score of every finding of the list is the sum of the
\* weights of its indicators, and no type of indicator occurs twice; also
\* when the gate is closed, the fetch fails or the analysis of the fetched
\* page stops midway.
C26_ScoreIsSumOfWeights ==
    \A i \in Emitted :
        /\ FracEq(FindingOf(i).severity_score, SumOfWeights(FindingOf(i).indicators))
        /\ Cardinality(IndicatorTypes(FindingOf(i))) = Len(FindingOf(i).indicators)

\* a finding whose analysis stopped after the credentials were scored, next
\* to a finding with an html_similarity indicator
C26_Witness ==
    /\ Done
    /\ \E i \in Emitted :
         /\ FailedMidway(i)
         /\ "credentials_found" \in IndicatorTypes(FindingOf(i))
         /\ FracGe(FindingOf(i).severity_score, Whole(5))
    /\ \E i \in Emitted :
         /\ "html_similarity" \in IndicatorTypes(FindingOf(i))
         /\ FracGt(FindingOf(i).severity_score, Whole(6))

\* the title of argument n of compareHtmlStructure, as extracted
TitleOf(n) == extractStructuralFeatures(args[n]).title

\* a title that is not empty is a substring of the other title
NonEmptyTitleWithin ==
    \/ TitleOf(1) # << >> /\ Includes(TitleOf(2), TitleOf(1))
    \/ TitleOf(2) # << >> /\ Includes(TitleOf(1), TitleOf(2))

\* C27: the title score of compareHtmlStructure is 100 when the titles are
\* the same string, 50 when they differ and a title that is not empty is a
\* substring of the other, and 0 otherwise: an empty title against a
\* different title scores 0.
C27_TitleScore ==
    HtmlReturned =>
        ret.title = IF TitleOf(1) = TitleOf(2) THEN Whole(100)
                    ELSE IF NonEmptyTitleWithin THEN Whole(50)
                    ELSE Whole(0)

\* the confidence is above 80 and at most 100
InMatchRange(confidence) ==
    FracGt(confidence, Whole(80)) /\ FracGe(Whole(100), confidence)

\* the domain_similarity indicators of a finding
DomainIndicators(f) ==
    {k \in 1..Len(f.indicators) : f.indicators[k].type = "domain_similarity"}

\* C28: the confidence of every match of checkBrandSimilarity is above 80
\* and at most 100; so with the default similarityThreshold of 70 every
\* candidate that has a domain_similarity indicator is fetched, none skipped.
C28_MatchesOpenTheDefaultGate ==
    /\ \A d \in Detections : d.match.match => InMatchRange(d.match.confidence)
    /\ \A i \in Results :
         Analyzed(i) =>
             \A k \in DomainIndicators(FindingOf(i)) :
                 /\ InMatchRange(FindingOf(i).indicators[k].confidence)
                 /\ analysisOptions.similarityThreshold = DefaultSimilarityThreshold =>
                        Fetched(i) /\ FindingOf(i).crawl_reason = "undefined"

\* with the default threshold and no reference page, a candidate whose match
\* is the weakest kind (edit-distance similarity 81.8) was fetched
C28_Witness ==
    /\ Done /\ ~ReferenceAvailable
    /\ analysisOptions.similarityThreshold = DefaultSimilarityThreshold
    /\ \E i \in Results :
         /\ Analyzed(i) /\ Fetched(i)
         /\ \E k \in DomainIndicators(FindingOf(i)) :
              /\ FindingOf(i).indicators[k].similarity_type = "high_similarity"
              /\ ~FracGe(FindingOf(i).indicators[k].confidence, Whole(85))

\* the host name of a url: what follows the scheme, up to the first "/"
HostName(url) ==
    LET rest == StripScheme(url)
    IN  IF Includes(rest, <<"/">>) THEN Substring(rest, 0, IndexOf(rest, <<"/">>)) ELSE rest

\* what checkBrandSimilarity yields for the host name of each url and each
\* keyword list
HostDetections ==
    {[url |-> u, keywords |-> p.keywords,
      match |-> checkBrandSimilarity(HostName(u), p.keywords)] :
       u \in CandidateUrls, p \in CompanyProfiles}

HostDetection(u, ks) ==
    (CHOOSE d \in HostDetections : d.url = u /\ d.keywords = ks).match

\* C24: metadata scoring applies the typosquatting rules to the host name of
\* the candidate: the finding has a domain_similarity indicator when the
\* host name matches a keyword, with the type and confidence of that match;
\* http://googel.onion with keyword "google" gets character_swap, 95.
C24_HostNameIsMatched ==
    \A i \in Results :
        Analyzed(i) =>
            LET host == HostDetection(searchResults[i].url, profile.keywords)
                f == FindingOf(i)
            IN  /\ host.match <=> DomainIndicators(f) # {}
                /\ \A k \in DomainIndicators(f) :
                     /\ f.indicators[k].similarity_type = host.type
                     /\ FracEq(f.indicators[k].confidence, host.confidence)
                /\ (searchResults[i].url = U_googel /\ profile.keywords = <<S_google>>) =>
                     \E k \in DomainIndicators(f) :
                         /\ f.indicators[k].similarity_type = "character_swap"
                         /\ f.indicators[k].confidence = Whole(95)

\* http://googel.onion analysed with keyword "google" has no
\* domain_similarity indicator
GoogelIsNotMatched ==
    \E i \in Results :
        /\ Analyzed(i)
        /\ searchResults[i].url = U_googel /\ profile.keywords = <<S_google>>
        /\ DomainIndicators(FindingOf(i)) = {}
        /\ HostDetection(U_googel, <<S_google>>).type = "character_swap"

\* the search requests a task has issued
SearchRequests(t) == {k \in DOMAIN t.requests : t.requests[k].kind = "search"}

\* C23: the task of the token-based engine ahmia issues its search request
\* only after its home page gave the hidden input's name and value, and the
\* request carries them; when they are not found the task ends with an error
\* and no results, and never issues a search request.
C23_TokenBeforeSearch ==
    \A i \in 1..Len(task) :
        task[i].name = E_ahmia =>
            /\ task[i].requests[1] = HomeRequest(TOP_SEARCH_ENGINES(E_ahmia))
            /\ \A k \in SearchRequests(task[i]) :
                 /\ k > 1
                 /\ task[i].token = "found"
                 /\ task[i].requests[k].token
                 /\ task[i].requests[k].base = TOP_SEARCH_ENGINES(E_ahmia)
            /\ task[i].token = "missing" =>
                 /\ SearchRequests(task[i]) = {}
                 /\ task[i].status = "fulfilled"
                 /\ task[i].value.results = << >>
                 /\ task[i].value.error = "Could not find search token"

\* of two ahmia tasks, one found no token and ended without a search
\* request, the other searched with its token and found results
C23_Witness ==
    /\ mpc = "returned"
    /\ \E i \in 1..Len(task) :
         task[i].name = E_ahmia /\ task[i].token = "missing" /\ Len(task[i].requests) = 1
    /\ \E i \in 1..Len(task) :
         /\ task[i].name = E_ahmia /\ task[i].token = "found"
         /\ Len(task[i].requests) = 2
         /\ task[i].value.results # << >>

\* the configured engine a name of enginesToUse stands for
ConfiguredKey(i) == ToLowerCase(enginesToUse[i])

\* C29: every engine of engines_used is queried at the base url configured
\* for it and with its own strategy, in whatever letter case the caller
\* wrote its name: ahmia with the token protocol, a standard engine with its
\* search url; never at an undefined base url.
C29_AcceptedEnginesAreQueriedAsConfigured ==
    \A i \in 1..Len(task) :
        /\ TOP_SEARCH_ENGINES(ConfiguredKey(i)).defined
        /\ \A k \in DOMAIN task[i].requests :
             task[i].requests[k].base = TOP_SEARCH_ENGINES(ConfiguredKey(i))
        /\ task[i].requests[1] =
               IF ConfiguredKey(i) = E_ahmia
               THEN HomeRequest(TOP_SEARCH_ENGINES(E_ahmia))
               ELSE buildSearchUrl(ConfiguredKey(i), TOP_SEARCH_ENGINES(ConfiguredKey(i)))

\* "Ahmia" is in engines_used and was queried as a standard engine at an
\* undefined base url
AhmiaQueriedAtUndefined ==
    /\ mpc = "returned"
    /\ \E i \in 1..Len(task) :
         /\ out.engines_used[i] = E_Ahmia
         /\ task[i].requests = <<buildSearchUrl(E_Ahmia, [defined |-> FALSE, base |-> << >>])>>

(***************************************************************************)
(* Properties of runFullScan.                                              *)
(***************************************************************************)
\* the profile has no keywords: the list is missing or empty
LacksKeywords == ~HasKeywords(profile) \/ profile.keywords = << >>

\* C21: when the company profile has no keywords the scan aborts with a
\* configuration error before any search: nothing is searched, nothing is
\* analysed and no feature runs.
C21_NoKeywordsAborts ==
    LacksKeywords =>
        /\ spc \in {"start", "thrown"}
        /\ queries = << >>
        /\ apc = "idle"

\* a scan of all features with an empty keyword list has run brand
\* monitoring on no search result, gone on and returned
EmptyKeywordsScanReturns ==
    /\ spc = "returned"
    /\ "brandMonitoring" \in enabledFeatures
    /\ HasKeywords(profile) /\ profile.keywords = << >>
    /\ queries = << >> /\ apc = "done" /\ analysis.totalFindings = 0

\* the urls the searches of the scan returned
UrlsFound == {allSearchResults[k].url : k \in DOMAIN allSearchResults}

\* the analyses and the page requests of brand monitoring for a url
AnalysesOf(u) == {i \in Results : searchResults[i].url = u /\ Analyzed(i)}

FetchesOf(u) == {k \in DOMAIN fetches : searchResults[fetches[k]].url = u}

\* C22: in one scan every url the searches returned, for however many
\* keywords, is analysed by brand monitoring exactly once and its page is
\* requested at most once.
C22_EachUrlOnce ==
    \A u \in UrlsFound :
        /\ Cardinality(FetchesOf(u)) <= 1
        /\ Cardinality(AnalysesOf(u)) <= 1
        /\ Cardinality({i \in Results : searchResults[i].url = u}) <= 1
        /\ spc \in {"features", "returned"} => Cardinality(AnalysesOf(u)) = 1

\* a url that the searches for two keywords both returned was analysed and
\* fetched once
C22_Witness ==
    /\ spc = "returned"
    /\ Len(queries) = 2
    /\ \E u \in UrlsFound :
         /\ Cardinality({k \in DOMAIN allSearchResults : allSearchResults[k].url = u}) = 2
         /\ Cardinality(FetchesOf(u)) = 1
         /\ Cardinality(AnalysesOf(u)) = 1

(***************************************************************************)
(* Properties of the session manager.                                      *)
(***************************************************************************)
\* C30: the container of every session that was created is stopped in the
\* end, once the session's key has run out, as long as time goes on and the
\* cleanup timer keeps firing.
C30_ContainerIsStoppedInTheEnd ==
    (session.container = "running") ~> (session.container = "stopped")

\* the key of the session has expired, the cleanup has run since, and the
\* container is still running
ContainerOutlivesKey ==
    /\ session.container = "running"
    /\ ~session.key
    /\ untilCleanup = CleanupInterval

\* the cleanup found the key in its last minute and stopped the container
ContainerStoppedByCleanup ==
    /\ session.container = "stopped"
    /\ untilCleanup = CleanupInterval

====
